---- MODULE Spec2Model ----
(***************************************************************************)
(* Model of the SD-card controller of the SD stress-test firmware          *)
(* (src/src/sd_controller.cpp): block I/O, the FAT32 volume and file       *)
(* locator, the append writer, the mount orchestrator and the frequency    *)
(* ladder.  The card is a small array of 512-byte sectors; every public    *)
(* operation of the controller is one action.                              *)
(***************************************************************************)
EXTENDS Integers, Sequences, FiniteSets, TLC

\* ------------------------------------------------------------------------
\* Bounds of the model (not program constants)
\* ------------------------------------------------------------------------

\* number of 512-byte sectors of the modelled card
NumSectors == 8

\* number of calls of one run that append to the file or in which the card
\* misbehaves
MaxEvents == 2

\* number of cycles the application runs between two starts of the
\* processor
MaxCycles == 10

\* ------------------------------------------------------------------------
\* Program constants
\* ------------------------------------------------------------------------

CT_NONE == 0
CT_SD1 == 1
CT_SD2 == 2
CT_SDHC == 3

CMD0 == 0
CMD8 == 8
CMD16 == 16
CMD17 == 17
CMD24 == 24
CMD55 == 55
CMD58 == 58
ACMD41 == 41

\* the flag 0x80 that marks an application command
ACMD_FLAG == 128

R1_IDLE_STATE == 1
R1_ILLEGAL_CMD == 4

\* most CMD0 and ACMD41 attempts of one sd_mount
CMD0_ATTEMPTS == 100
ACMD41_ATTEMPTS == 1000

\* arguments of CMD8 (0x1AA) and of the v2 ACMD41 (0x40000000, HCS)
CMD8_ARG == 426
ACMD41_HCS == 1073741824

ERR_NONE == 0
ERR_SD_INIT_FAILED == 1
ERR_SD_MOUNT_FAILED == 2
ERR_FILE_OPEN_FAILED == 3
ERR_FILE_WRITE_FAILED == 4
ERR_SD_CARD_TYPE_UNKNOWN == 10
ERR_FAT_VOLUME_FAILED == 11
ERR_BUFFER_OVERFLOW == 12

SD_SPI_FREQUENCY == 4000000
SD_SPI_INIT_FREQ == 400000
CSV_LINE_MAX_SIZE == 128
SECTOR_SIZE == 512
DIR_ENTRIES == 16
NEW_CLUSTER == 3
NO_FREE_ENTRY == 255

\* the three rungs of the fallback ladder, in table order
spi_freq_table == <<4000000, 1000000, 400000>>

\* "timestamp_ms,cycle,status,error_code,init_time_us,write_time_us,
\*  spi_freq_hz,vbat_mv,free_heap\n" as bytes
CSV_HEADER ==
  << 116, 105, 109, 101, 115, 116, 97, 109, 112, 95, 109, 115, 44, 99, 121, 99,
     108, 101, 44, 115, 116, 97, 116, 117, 115, 44, 101, 114, 114, 111, 114, 95,
     99, 111, 100, 101, 44, 105, 110, 105, 116, 95, 116, 105, 109, 101, 95, 117,
     115, 44, 119, 114, 105, 116, 101, 95, 116, 105, 109, 101, 95, 117, 115, 44,
     115, 112, 105, 95, 102, 114, 101, 113, 95, 104, 122, 44, 118, 98, 97, 116,
     95, 109, 118, 44, 102, 114, 101, 101, 95, 104, 101, 97, 112, 10 >>

\* "SD_TEST CSV", the 8.3 name of the file
CSV_NAME_83 == << 83, 68, 95, 84, 69, 83, 84, 32, 67, 83, 86 >>

\* ------------------------------------------------------------------------
\* Fixed-width arithmetic and byte access
\* ------------------------------------------------------------------------

\* A uint32 of the program is held as the integer of the same value; every
\* uint32 the model computes is below 2^31 in absolute value, and a
\* difference that wraps in the program (cluster - 2 for cluster 0 or 1)
\* is held as the negative integer congruent to it modulo 2^32, so that
\* sums and products agree with the program's modulo 2^32.

U16(x) == x % 65536

\* A 512-byte array (a sector of the card, the sector buffer) is held as the
\* sequence of its bytes up to the last nonzero one: the bytes after the end
\* of the sequence are 0.

Max(a, b) == IF a > b THEN a ELSE b

RECURSIVE TrimLen(_, _)
\* the length of the first n bytes without their trailing zero bytes
TrimLen(bytes, n) ==
  IF n = 0 \/ bytes[n] # 0 THEN n
  ELSE IF n >= 32 /\ \A k \in (n - 31)..n : bytes[k] = 0
    THEN TrimLen(bytes, n - 32)
  ELSE TrimLen(bytes, n - 1)

\* the array without its trailing zero bytes
Trim(bytes) == SubSeq(bytes, 1, TrimLen(bytes, Len(bytes)))

\* buffer[i] of the C code (0-based)
At(buf, i) == IF i < Len(buf) THEN buf[i + 1] ELSE 0

\* b0 | b1 << 8 | b2 << 16 | b3 << 24 at byte offset off
LE32(buf, off) ==
  At(buf, off) + 256 * At(buf, off + 1) + 65536 * At(buf, off + 2)
    + 16777216 * At(buf, off + 3)

LE16(buf, off) == At(buf, off) + 256 * At(buf, off + 1)

\* (x & mask) != 0 for a one-bit mask
BitSet(x, mask) == (x \div mask) % 2 = 1

\* memset(buffer, 0, 512)
ZeroSector == << >>

\* memcpy(&buf[off], src, Len(src)) on a 512-byte buffer
MemCpy(buf, off, src) ==
  Trim([i \in 1..Max(Len(buf), off + Len(src)) |->
          IF i > off /\ i <= off + Len(src) THEN src[i - off]
          ELSE At(buf, i - 1)])

\* ------------------------------------------------------------------------
\* printf conversions used by the CSV row
\* ------------------------------------------------------------------------

RECURSIVE DecStr(_)
\* "%lu" / "%d" of a non-negative value: its decimal digits as bytes
DecStr(n) ==
  IF n < 10 THEN << 48 + n >> ELSE DecStr(n \div 10) \o << 48 + (n % 10) >>

COMMA == 44
NEWLINE == 10
STR_OK == << 79, 75 >>
STR_FAIL == << 70, 65, 73, 76 >>

\* "%lu,%lu,%s,%d,%lu,%lu,%lu,%lu,%lu\n"
FormatRow(a) ==
  DecStr(a.timestamp_ms) \o << COMMA >> \o
  DecStr(a.cycle) \o << COMMA >> \o
  (IF a.success THEN STR_OK ELSE STR_FAIL) \o << COMMA >> \o
  DecStr(a.error_code) \o << COMMA >> \o
  DecStr(a.init_time_us) \o << COMMA >> \o
  DecStr(a.write_time_us) \o << COMMA >> \o
  DecStr(a.spi_freq_used) \o << COMMA >> \o
  DecStr(a.vbat_mv) \o << COMMA >> \o
  DecStr(a.free_heap) \o << NEWLINE >>

\* ------------------------------------------------------------------------
\* The card: NumSectors sectors of 512 bytes, and the images a run starts on
\* ------------------------------------------------------------------------

\* a sector that is zero except at the (0-based) offsets of the function f
SectorOf(f) ==
  Trim([i \in 1..SECTOR_SIZE |-> IF (i - 1) \in DOMAIN f THEN f[i - 1] ELSE 0])

\* a FAT32 boot sector: 512 bytes per sector, 1 sector per cluster,
\* 1 reserved sector, 2 FATs of 1 sector, root directory in cluster 2
BpbSector ==
  SectorOf((11 :> 0) @@ (12 :> 2) @@ (13 :> 1) @@ (14 :> 1) @@ (15 :> 0) @@
           (16 :> 2) @@ (32 :> NumSectors) @@ (36 :> 1) @@ (44 :> 2) @@
           (510 :> 85) @@ (511 :> 170))

\* the same sector without the 0x55 0xAA trailer
UnsignedSector == SubSeq(BpbSector, 1, 45)

\* a partition table without the 0x55 0xAA trailer whose first entry
\* starts at LBA lba (offset 0x1C6)
MbrSector(lba) == SectorOf((454 :> lba))

\* a 32-byte directory entry of the given name, start cluster and size
DirEntry(name, cluster, size) ==
  [j \in 1..32 |->
     CASE j <= 11 -> name[j]
       [] j = 12 -> 32
       [] j = 21 -> (cluster \div 65536) % 256
       [] j = 22 -> (cluster \div 16777216) % 256
       [] j = 27 -> cluster % 256
       [] j = 28 -> (cluster \div 256) % 256
       [] j = 29 -> size % 256
       [] j = 30 -> (size \div 256) % 256
       [] j = 31 -> (size \div 65536) % 256
       [] j = 32 -> (size \div 16777216) % 256
       [] OTHER -> 0]

\* "README  TXT"
OTHER_NAME == << 82, 69, 65, 68, 77, 69, 32, 32, 84, 88, 84 >>

CsvEntry(cluster, size) == DirEntry(CSV_NAME_83, cluster, size)

OtherEntry == DirEntry(OTHER_NAME, 9, 100)

\* a deleted entry: first byte 0xE5, the rest of an old entry kept
DeletedEntry == [OtherEntry EXCEPT ![1] = 229]

\* an entry that was never used: 32 zero bytes
UnusedEntry == [j \in 1..32 |-> 0]

\* a directory sector holding the given entries, zero after them
DirSector(entries) ==
  Trim([i \in 1..(32 * Len(entries)) |->
          entries[((i - 1) \div 32) + 1][((i - 1) % 32) + 1]])

FullDir == DirSector([e \in 1..DIR_ENTRIES |-> OtherEntry])

\* the root-directory sectors a run may start with
DirImages ==
  [ empty   |-> ZeroSector,
    file473 |-> DirSector(<< CsvEntry(3, 473) >>),
    file500 |-> DirSector(<< OtherEntry, DeletedEntry, CsvEntry(3, 500) >>),
    deleted |-> DirSector(<< OtherEntry, DeletedEntry, OtherEntry >>),
    full    |-> FullDir,
    ended   |-> DirSector(<< OtherEntry, UnusedEntry, CsvEntry(3, 473) >>),
    file1100 |-> DirSector(<< DeletedEntry, CsvEntry(3, 1100), UnusedEntry,
                              CsvEntry(3, 0) >>),
    fileNoCluster |-> DirSector(<< OtherEntry, CsvEntry(0, 0) >>),
    fileAtRoot |-> DirSector(<< CsvEntry(2, 40) >>) ]

\* sector images of a card: boot sector at `first` (0, or 1 behind a
\* partition table), with the trailer or not, then the FATs, then the root
\* directory
CardSectors(first, dir, signed) ==
  [n \in 0..(NumSectors - 1) |->
     CASE n = first -> IF signed THEN BpbSector ELSE UnsignedSector
       [] n = 0 /\ first # 0 -> MbrSector(first)
       [] n = first + 3 -> dir
       [] OTHER -> ZeroSector]

\* the cards a run may start on: kind of card, position of the boot sector,
\* root directory, boot sector with the trailer or without
CardImages ==
  { [kind |-> CT_SDHC, first |-> 0, dir |-> "empty", signed |-> TRUE],
    [kind |-> CT_SD2,  first |-> 0, dir |-> "file473", signed |-> TRUE],
    [kind |-> CT_SD1,  first |-> 0, dir |-> "file500", signed |-> TRUE],
    [kind |-> CT_SDHC, first |-> 1, dir |-> "deleted", signed |-> TRUE],
    [kind |-> CT_SDHC, first |-> 0, dir |-> "full", signed |-> TRUE],
    [kind |-> CT_SD2,  first |-> 1, dir |-> "empty", signed |-> FALSE],
    [kind |-> CT_SDHC, first |-> 0, dir |-> "empty", signed |-> FALSE] }

\* more root directories for the file locator: the file's name behind the
\* end marker, a file longer than two sectors behind a deleted entry, a
\* full directory behind a partition table
LocatorImages ==
  CardImages \cup
  { [kind |-> CT_SD2,  first |-> 0, dir |-> "ended", signed |-> TRUE],
    [kind |-> CT_SD1,  first |-> 0, dir |-> "file1100", signed |-> TRUE],
    [kind |-> CT_SDHC, first |-> 1, dir |-> "full", signed |-> TRUE] }

\* the sector a card of the given kind selects for a command address:
\* block-addressed (SDHC) or byte-addressed (SD1, SD2); -1 when the address
\* is misaligned
CardSector(kind, addr) ==
  IF kind = CT_SDHC THEN addr
  ELSE IF addr % SECTOR_SIZE = 0 THEN addr \div SECTOR_SIZE ELSE -1

\* ------------------------------------------------------------------------
\* State
\* ------------------------------------------------------------------------

VARIABLES
  card,                \* the card's sectors: 0..NumSectors-1 -> 512 bytes
  cardKind,            \* what the inserted card is: CT_SD1, CT_SD2, CT_SDHC
  sd_initialized,
  sd_mounted,
  card_type,
  current_spi_freq,
  last_init_time_us,
  last_write_time_us,
  csv_next_sector,
  csv_byte_offset,
  sector_buffer,
  header_written,
  geom,                \* the BPB statics: bytes_per_sector .. total_sectors
  cs_high,             \* level of the chip-select pin (TRUE = deasserted)
  last,                \* the last public call: name, arguments, return value
  bus,                 \* the block operations issued by the last public call
  frames,              \* the command frames sent by the last public call:
                       \* frame -> number of times it was sent
  answers,             \* how the card answered the identification when
                       \* the last public call was sd_mount
  wire,                \* what the last public call did on the SPI bus:
                       \* calls of spi_transfer, longest waits, frames in
                       \* order, frequencies used
  written_end,         \* byte position after the last byte stored by a
                       \* successful writeCsvLine (0: none yet)
  session_wrote,       \* a writeCsvLine succeeded since the last mount call
  nEvents,             \* calls so far that appended to the file or in
                       \* which the card misbehaved
  app                  \* the application: the position of main.cpp (pc),
                       \* its statics and the locals of the cycle

vars ==
  << card, cardKind, sd_initialized, sd_mounted, card_type, current_spi_freq,
     last_init_time_us, last_write_time_us, csv_next_sector, csv_byte_offset,
     sector_buffer, header_written, geom, cs_high, last, bus, frames,
     answers, wire, written_end, session_wrote, nEvents, app >>

\* the value of `answers` when the call is not sd_mount
Unasked ==
  [ cmd0_at |-> 0, cmd8 |-> 0, echo2 |-> 0, echo3 |-> 0, cmd55 |-> 0,
    acmd41_at |-> 0, cmd58 |-> 0, ocr0 |-> 0, cmd16 |-> 0, ready_at |-> 0 ]

\* tags of the transfers made before the first command of a call and of
\* those of the SPI warmup; the other transfers carry the index of the
\* command they belong to
NO_COMMAND == 0 - 2
WARMUP == 0 - 1

\* the bus at the entry of a public call: xfer counts the calls of
\* spi_transfer; ready, resp, token, busy are the longest waits (in bytes
\* polled) for the line to be released, for a response, for a data token
\* and for the end of a write; seq lists the frames in order, as blocks
\* [cmds, n] standing for the frames cmds sent n times over; at holds a
\* pair <<tag, frequency>> for every transfer made; cur is the tag of the
\* transfers being made
NoWire ==
  [ xfer |-> 0, ready |-> 0, resp |-> 0, token |-> 0, busy |-> 0,
    seq |-> << >>, at |-> {}, cur |-> NO_COMMAND ]

\* the statics of the controller and the card as one value, so that the
\* functions of the controller are operators from state to state; `ret` is
\* the return value of the function just applied, `filled` how the sector
\* buffer was last filled ("zero": memset, "read": from sector `filled_of`),
\* `from` the offset at which the caller started to modify the buffer
State ==
  [ card |-> card, kind |-> cardKind,
    sd_initialized |-> sd_initialized, sd_mounted |-> sd_mounted,
    card_type |-> card_type, current_spi_freq |-> current_spi_freq,
    last_init_time_us |-> last_init_time_us,
    last_write_time_us |-> last_write_time_us,
    csv_next_sector |-> csv_next_sector, csv_byte_offset |-> csv_byte_offset,
    sector_buffer |-> sector_buffer, header_written |-> header_written,
    geom |-> geom, cs_high |-> cs_high,
    bus |-> << >>, frames |-> << >>, answers |-> Unasked, wire |-> NoWire,
    ret |-> 0, filled |-> "none", filled_of |-> 0, from |-> 0,
    app |-> app ]

\* the values of the BPB statics at their definitions
GeomInit ==
  [ bytes_per_sector |-> 512, sectors_per_cluster |-> 1,
    reserved_sectors |-> 0, num_fats |-> 2, sectors_per_fat |-> 0,
    root_cluster |-> 2, fat_start_sector |-> 0, data_start_sector |-> 0,
    total_sectors |-> 0 ]

\* ------------------------------------------------------------------------
\* Block I/O.  io = [failAt, landed, how] is the behaviour of the card
\* during one public call: its failAt-th block operation fails (0: none
\* does) in the way `how`, and a failed write has changed the sector or not
\* (landed).
\* ------------------------------------------------------------------------

\* a command engine that sends 0xFF with every command
Crc_NoLiteral(cmd) == 255

\* the CRC byte sent with a command
Crc(cmd) == IF cmd = CMD8 THEN 135 ELSE IF cmd = CMD0 THEN 149 ELSE 255

\* the six bytes sent for a command, as command index, argument, CRC byte
Frame(cmd, arg) == [cmd |-> cmd, arg |-> arg, crc |-> Crc(cmd)]

\* the frames sent so far and n more copies of frame f
Sent(sent, f, n) ==
  IF n = 0 THEN sent
  ELSE IF f \in DOMAIN sent THEN [sent EXCEPT ![f] = @ + n]
  ELSE sent @@ (f :> n)

\* a loop that tests retry++ < limit and so runs once more
RetryLoop_OneMore(limit, ready_at) ==
  CHOOSE k \in 1..(limit + 1) :
    /\ k >= ready_at \/ k >= limit + 1
    /\ \A j \in 1..(k - 1) : j < ready_at

\* do { response = sd_send_cmd(...) } while (response is not the awaited
\* one && ++retry < limit): the number of times the command is attempted
\* when the card gives the awaited response from attempt ready_at on
RetryLoop(limit, ready_at) ==
  CHOOSE k \in 1..limit :
    /\ k >= ready_at \/ k >= limit
    /\ \A j \in 1..(k - 1) : j < ready_at

\* ceilings of the byte-polling loops: ++retry > 200 before a command,
\* ++retry < 10 for its response, ++retry > 10000 for the data token of a
\* read, ++retry > 50000 for the end of a write
READY_RETRIES == 200
RESPONSE_POLLS == 10
TOKEN_RETRIES == 10000
BUSY_RETRIES == 50000

\* a poll number no byte-polling loop reaches: the awaited byte never comes
NEVER_ARRIVES == 60000

\* a loop that has no ceiling
WaitLoop_NoCeiling(retries, at) == at

\* while (the byte polled is not the awaited one) { if (++retry > retries)
\* give up; }: the number of bytes polled when the awaited byte is the
\* at-th; the loop gave up when that number is below `at`
WaitLoop(retries, at) == IF at <= retries + 1 THEN at ELSE retries + 1

\* n calls of spi_transfer at the current frequency
Clock(s, n) ==
  IF n = 0 THEN s
  ELSE [s EXCEPT !.wire.xfer = @ + n,
                 !.wire.at = @ \cup {<< s.wire.cur, s.current_spi_freq >>}]

\* spi_deselect: chip-select high and 8 extra clocks
spi_deselect(s) == Clock([s EXCEPT !.cs_high = TRUE], 1)

\* the card's side of one frame: the line reads 0xFF from the ready_at-th
\* byte polled after select; after the CRC byte the card sends `filler`
\* (a byte with the high bit set) and as resp_at-th byte r
Line(ready_at, resp_at, r, filler) ==
  [ready_at |-> ready_at, resp_at |-> resp_at, r |-> r, filler |-> filler]

\* a card that releases the line at once and answers r with its first byte
Prompt(r) == Line(1, 1, r, 255)

\* the j-th byte the card sends after a frame
ResponseByte(line, j) == IF j < line.resp_at THEN line.filler ELSE line.r

\* the first byte after a frame that has the high bit clear
FirstResponse(line) ==
  IF BitSet(line.r, 128) THEN NEVER_ARRIVES ELSE line.resp_at

\* the start of a frame: spi_deselect, then spi_select
Selected(s, cmd) ==
  [spi_deselect([s EXCEPT !.wire.cur = cmd]) EXCEPT !.cs_high = FALSE]

\* the wait for the line to be released, polled bytes long
ReadyWait(s, polled) == Clock([s EXCEPT !.wire.ready = Max(@, polled)], polled)

\* the six bytes of the command and the k bytes polled for its response
Framed(s, cmd, arg, line, k) ==
  [Clock([s EXCEPT
            !.frames = Sent(@, Frame(cmd, arg), 1),
            !.wire.seq = Append(@, [cmds |-> << cmd >>, n |-> 1]),
            !.wire.resp = Max(@, k)],
         6 + k)
   EXCEPT !.ret = ResponseByte(line, k)]

\* a frame after its wait for the line: given up with 0xFF, or sent
AfterReadyWait(s, cmd, arg, line, polled) ==
  IF polled < line.ready_at
    THEN [ReadyWait(s, polled) EXCEPT !.ret = 255]
  ELSE Framed(ReadyWait(s, polled), cmd, arg, line,
              RetryLoop(RESPONSE_POLLS, FirstResponse(line)))

\* one frame of sd_send_cmd: deselect, select, wait for the line, the six
\* bytes of the command, wait for the response
SendFrame(s, cmd, arg, line) ==
  AfterReadyWait(Selected(s, cmd), cmd, arg, line,
                 WaitLoop(READY_RETRIES, line.ready_at))

\* an application command after its CMD55, sent whatever CMD55 answered
AfterCmd55_Ignored(s1, cmd, arg, line) == SendFrame(s1, cmd, arg, line)

\* an application command after its CMD55: if (response > 1) return response
AfterCmd55(s1, cmd, arg, line) ==
  IF s1.ret > 1 THEN s1 ELSE SendFrame(s1, cmd, arg, line)

\* sd_send_cmd: line55 is the card's side of the CMD55 frame of an
\* application command, line its side of the frame of the command itself
sd_send_cmd(s, cmd, arg, line55, line) ==
  IF BitSet(cmd, ACMD_FLAG)
    THEN AfterCmd55(SendFrame(s, CMD55, 0, line55), cmd % ACMD_FLAG, arg, line)
  ELSE SendFrame(s, cmd, arg, line)

\* the address sent with CMD17/CMD24
BlockAddr(ct, sector) ==
  IF ct = CT_SDHC THEN sector ELSE (sector * SECTOR_SIZE)

\* the card's side of the CMD17/CMD24 frame
BlockLine(how) ==
  CASE how = "rejected" -> Prompt(R1_ILLEGAL_CMD)
    [] how = "stuck" -> Line(NEVER_ARRIVES, 1, 0, 255)
    [] how = "silent" -> Prompt(255)
    [] OTHER -> Prompt(0)

\* the wait for the data token of a read, polled bytes long
TokenWait(c, polled) == Clock([c EXCEPT !.wire.token = Max(@, polled)], polled)

\* sd_read_sector after its command: c is the state after sd_send_cmd
ReadData(s, c, sector, tgt, how) ==
  [spi_deselect(IF c.ret # 0 THEN c
                ELSE IF how = "ok"
                  THEN Clock(TokenWait(c, 1), SECTOR_SIZE + 2)
                ELSE TokenWait(c, WaitLoop(TOKEN_RETRIES,
                                           IF how = "hang" THEN NEVER_ARRIVES
                                           ELSE 1)))
   EXCEPT
     !.ret = how = "ok",
     !.sector_buffer = IF how = "ok" THEN s.card[tgt] ELSE @,
     !.filled = IF how = "ok" THEN "read" ELSE @,
     !.filled_of = IF how = "ok" THEN sector ELSE @,
     !.bus = Append(@, [op |-> "read", sector |-> sector, ok |-> how = "ok",
                        filled |-> "none", filled_of |-> 0, from |-> 0])]

\* the block of the card that the sector number selects
TargetOf(s, sector) == CardSector(s.kind, BlockAddr(s.card_type, sector))

\* how the next block operation goes under the plan io: "ok", or the way
\* it fails: the command "rejected" (also when the address is outside the
\* card), the line "stuck" busy, the card "silent", the "data" phase
\* refused (wrong token of a read, data response of a write), or a "hang"
\* (no data token, a write that never ends)
OutcomeAt(s, sector, io) ==
  IF TargetOf(s, sector) \notin DOMAIN s.card THEN "rejected"
  ELSE IF Len(s.bus) + 1 = io.failAt THEN io.how
  ELSE "ok"

sd_read_sector(s, sector, io) ==
  ReadData(s, sd_send_cmd(s, CMD17, BlockAddr(s.card_type, sector), Prompt(0),
                          BlockLine(OutcomeAt(s, sector, io))),
           sector, TargetOf(s, sector), OutcomeAt(s, sector, io))

\* the wait for the end of a write, polled bytes long
BusyWait(c, polled) == Clock([c EXCEPT !.wire.busy = Max(@, polled)], polled)

\* the token, the block, the CRC and the data response of a write
DataOut(c) == Clock(c, 2 + SECTOR_SIZE + 2 + 1)

\* sd_write_sector after its command: c is the state after sd_send_cmd
WriteData(s, c, sector, tgt, how, stored) ==
  [spi_deselect(IF c.ret # 0 THEN c
                ELSE IF how = "data" THEN DataOut(c)
                ELSE BusyWait(DataOut(c),
                              WaitLoop(BUSY_RETRIES,
                                       IF how = "hang" THEN NEVER_ARRIVES
                                       ELSE 1)))
   EXCEPT
     !.ret = how = "ok",
     !.card = IF stored THEN [@ EXCEPT ![tgt] = s.sector_buffer] ELSE @,
     !.bus = Append(@, [op |-> "write", sector |-> sector, ok |-> how = "ok",
                        filled |-> s.filled, filled_of |-> s.filled_of,
                        from |-> s.from])]

sd_write_sector(s, sector, io) ==
  WriteData(s, sd_send_cmd(s, CMD24, BlockAddr(s.card_type, sector), Prompt(0),
                           BlockLine(OutcomeAt(s, sector, io))),
            sector, TargetOf(s, sector), OutcomeAt(s, sector, io),
            /\ TargetOf(s, sector) \in DOMAIN s.card
            /\ (OutcomeAt(s, sector, io) = "ok" \/ io.landed))

\* ------------------------------------------------------------------------
\* FAT32 volume locator and file locator
\* ------------------------------------------------------------------------

HasSignature(buf) == At(buf, 510) = 85 /\ At(buf, 511) = 170

\* a volume locator that counts the FAT from sector 0 of the card
ParseBpb_FromCardStart(buf, part_start) ==
  LET reserved == LE16(buf, 14)
      fats == At(buf, 16)
      spf == LE32(buf, 36)
  IN [ bytes_per_sector |-> LE16(buf, 11),
       sectors_per_cluster |-> At(buf, 13),
       reserved_sectors |-> reserved,
       num_fats |-> fats,
       sectors_per_fat |-> spf,
       root_cluster |-> LE32(buf, 44),
       fat_start_sector |-> reserved,
       data_start_sector |-> (reserved + (fats * spf)),
       total_sectors |-> LE32(buf, 32) ]

\* the BPB fields of the buffer, with the FAT starting after part_start
ParseBpb(buf, part_start) ==
  LET reserved == LE16(buf, 14)
      fats == At(buf, 16)
      spf == LE32(buf, 36)
      fat_start == (part_start + reserved)
  IN [ bytes_per_sector |-> LE16(buf, 11),
       sectors_per_cluster |-> At(buf, 13),
       reserved_sectors |-> reserved,
       num_fats |-> fats,
       sectors_per_fat |-> spf,
       root_cluster |-> LE32(buf, 44),
       fat_start_sector |-> fat_start,
       data_start_sector |-> (fat_start + (fats * spf)),
       total_sectors |-> LE32(buf, 32) ]

\* the second signature test and the BPB fields; r2 is the state when the
\* signature is tested the second time
VolumeAt(r2) ==
  IF ~HasSignature(r2.sector_buffer) THEN [r2 EXCEPT !.ret = FALSE]
  ELSE [r2 EXCEPT
          !.geom = ParseBpb(r2.sector_buffer, r2.geom.fat_start_sector),
          !.ret = TRUE]

\* fat32_read_bpb after the read of the first sector of the partition
AfterPartitionRead(r1, part_start) ==
  IF ~r1.ret THEN r1
  ELSE VolumeAt([r1 EXCEPT !.geom.fat_start_sector = part_start])

\* fat32_read_bpb after the read of sector 0
AfterSectorZero(r0, part_start, io) ==
  IF ~r0.ret THEN r0
  ELSE IF HasSignature(r0.sector_buffer)
    THEN VolumeAt([r0 EXCEPT !.geom.fat_start_sector = 0])
  ELSE IF part_start = 0 THEN [r0 EXCEPT !.ret = FALSE]
  ELSE AfterPartitionRead(sd_read_sector(r0, part_start, io), part_start)

\* the partition start read from the buffer after the read of sector 0
WithPartitionStart(r0, io) ==
  AfterSectorZero(r0, LE32(r0.sector_buffer, 454), io)

fat32_read_bpb(s, io) == WithPartitionStart(sd_read_sector(s, 0, io), io)

cluster_to_sector(g, cluster) ==
  (g.data_start_sector + ((cluster - 2) * g.sectors_per_cluster))

\* the 32 bytes of directory entry i (0-based) of the buffer
EntryAt(buf, i) == [j \in 1..32 |-> At(buf, i * 32 + j - 1)]

RECURSIVE ScanDir_PastEnd(_, _, _)
\* a directory loop that goes on behind the end marker
ScanDir_PastEnd(buf, i, free) ==
  IF i >= DIR_ENTRIES THEN [found |-> FALSE, index |-> i, free_entry |-> free]
  ELSE LET entry == EntryAt(buf, i)
           free1 == IF free = NO_FREE_ENTRY THEN i ELSE free
       IN IF entry[1] = 0 \/ entry[1] = 229
            THEN ScanDir_PastEnd(buf, i + 1, free1)
          ELSE IF SubSeq(entry, 1, 11) = CSV_NAME_83
            THEN [found |-> TRUE, index |-> i, free_entry |-> free]
          ELSE ScanDir_PastEnd(buf, i + 1, free)

RECURSIVE ScanDir(_, _, _)
\* the directory loop from entry i on, with the free slot remembered so
\* far: [found, index of the match, free_entry]
ScanDir(buf, i, free) ==
  IF i >= DIR_ENTRIES THEN [found |-> FALSE, index |-> i, free_entry |-> free]
  ELSE LET entry == EntryAt(buf, i)
           free1 == IF free = NO_FREE_ENTRY THEN i ELSE free
       IN IF entry[1] = 0
            THEN [found |-> FALSE, index |-> i, free_entry |-> free1]
          ELSE IF entry[1] = 229 THEN ScanDir(buf, i + 1, free1)
          ELSE IF SubSeq(entry, 1, 11) = CSV_NAME_83
            THEN [found |-> TRUE, index |-> i, free_entry |-> free]
          ELSE ScanDir(buf, i + 1, free)

\* a creation path that leaves the size bytes of the slot as they were
NewEntry_KeepsSize(old) ==
  [j \in 1..32 |->
     CASE j <= 11 -> CSV_NAME_83[j]
       [] j = 12 -> 32
       [] j = 21 -> (NEW_CLUSTER \div 65536) % 256
       [] j = 22 -> (NEW_CLUSTER \div 16777216) % 256
       [] j = 27 -> NEW_CLUSTER % 256
       [] j = 28 -> (NEW_CLUSTER \div 256) % 256
       [] OTHER -> old[j]]

\* the bytes the creation path stores in a directory entry
NewEntry(old) ==
  [j \in 1..32 |->
     CASE j <= 11 -> CSV_NAME_83[j]
       [] j = 12 -> 32
       [] j = 21 -> (NEW_CLUSTER \div 65536) % 256
       [] j = 22 -> (NEW_CLUSTER \div 16777216) % 256
       [] j = 27 -> NEW_CLUSTER % 256
       [] j = 28 -> (NEW_CLUSTER \div 256) % 256
       [] j \in 29..32 -> 0
       [] OTHER -> old[j]]

\* end-of-chain 0x0FFFFFFF, little-endian
FAT_EOC == << 255, 255, 255, 15 >>

\* a cursor that forgets the whole sectors of the file
FileCursor_ClusterStart(g, entry) ==
  [ sector |-> cluster_to_sector(g, LE16(entry, 26) + 65536 * LE16(entry, 20)),
    offset |-> LE32(entry, 28) % SECTOR_SIZE ]

\* the cursor for the file of a directory entry: start cluster from the
\* 16 bits at 0x1A (low) and 0x14 (high), size from the 32 bits at 0x1C
FileCursor(g, entry) ==
  LET start_cluster == LE16(entry, 26) + 65536 * LE16(entry, 20)
      file_size == LE32(entry, 28)
  IN [ sector |-> cluster_to_sector(g, start_cluster)
                    + (file_size \div SECTOR_SIZE),
       offset |-> file_size % SECTOR_SIZE ]

\* a creation path that marks the cluster in the second copy of the FAT
FatSector_SecondCopy(g) == g.fat_start_sector + g.sectors_per_fat

\* the sector of the FAT in which the creation path marks the cluster
FatSector(g) == g.fat_start_sector

\* the creation path after the read of the FAT sector
AfterFatRead(c3, g, io) ==
  IF ~c3.ret THEN c3
  ELSE sd_write_sector(
         [c3 EXCEPT
            !.sector_buffer =
               MemCpy(@, U16((NEW_CLUSTER * 4) % SECTOR_SIZE), FAT_EOC),
            !.from = U16((NEW_CLUSTER * 4) % SECTOR_SIZE)],
         FatSector(g), io)

\* the creation path after the write of the directory sector
AfterDirWrite(c1, g, io) ==
  IF ~c1.ret THEN c1
  ELSE AfterFatRead(
         sd_read_sector(
           [c1 EXCEPT
              !.csv_next_sector = cluster_to_sector(g, NEW_CLUSTER),
              !.csv_byte_offset = 0,
              !.header_written = FALSE],
           FatSector(g), io),
         g, io)

\* the file is found: the cursor is set from its entry
Found(r0, cursor) ==
  [r0 EXCEPT
     !.header_written = TRUE,
     !.csv_next_sector = cursor.sector,
     !.csv_byte_offset = cursor.offset,
     !.ret = TRUE]

\* fat32_find_or_create_file after the scan of the directory sector
AfterScan(r0, scan, g, root_sector, io) ==
  IF scan.found
    THEN Found(r0, FileCursor(g, EntryAt(r0.sector_buffer, scan.index)))
  ELSE IF scan.free_entry < DIR_ENTRIES
    THEN AfterDirWrite(
           sd_write_sector(
             [r0 EXCEPT
                !.sector_buffer =
                   MemCpy(@, scan.free_entry * 32,
                          NewEntry(EntryAt(@, scan.free_entry))),
                !.from = scan.free_entry * 32],
             root_sector, io),
           g, io)
  ELSE [r0 EXCEPT !.ret = FALSE]

\* fat32_find_or_create_file after the read of the root directory sector
AfterDirRead(r0, g, root_sector, io) ==
  IF ~r0.ret THEN r0
  ELSE AfterScan(r0, ScanDir(r0.sector_buffer, 0, NO_FREE_ENTRY), g,
                 root_sector, io)

\* fat32_find_or_create_file with the root directory at root_sector
LocateIn(s, root_sector, io) ==
  AfterDirRead(sd_read_sector(s, root_sector, io), s.geom, root_sector, io)

fat32_find_or_create_file(s, io) ==
  LocateIn(s, cluster_to_sector(s.geom, s.geom.root_cluster), io)

\* ------------------------------------------------------------------------
\* Mount orchestrator.  idb is what the card answers during identification:
\* the CMD0 attempt from which it answers "idle" (0xFF before), the CMD8
\* response and its echo bytes 2 and 3, its answer to CMD55, the ACMD41
\* attempt from which it answers 0 ("idle" before), the CMD58 response and
\* OCR byte 0, the CMD16 response, and the byte polled before each command
\* from which the line reads 0xFF (ready_at).
\* ------------------------------------------------------------------------

\* an unmount that forgets the flag
sd_unmount_KeepsMounted(s) == [spi_deselect(s) EXCEPT !.ret = ERR_NONE]

\* an unmount that leaves the card selected
sd_unmount_KeepsSelect(s) == [s EXCEPT !.sd_mounted = FALSE, !.ret = ERR_NONE]

sd_unmount(s) ==
  [spi_deselect([s EXCEPT !.sd_mounted = FALSE]) EXCEPT !.ret = ERR_NONE]

\* an error return that leaves the bus at the initialisation frequency
IdentFail_KeepsInitFreq(s, saved_freq, deselect, elapsed, err) ==
  [(IF deselect THEN spi_deselect(s) ELSE s) EXCEPT
     !.last_init_time_us = elapsed,
     !.ret = err]

\* the error return of the identification phase: deselect (on the paths
\* that do), restore the frequency, record the duration
IdentFail(s, saved_freq, deselect, elapsed, err) ==
  [(IF deselect THEN spi_deselect(s) ELSE s) EXCEPT
     !.current_spi_freq = saved_freq,
     !.last_init_time_us = elapsed,
     !.ret = err]

\* an attempt number no retry loop reaches: the card is never ready
NEVER_READY == 2000

\* the card's side of a frame of the identification: the answer r, first
\* byte after the frame
Answer(idb, r) == Line(idb.ready_at, 1, r, 255)

\* the line is not released within the wait of sd_send_cmd
Stuck(idb) == idb.ready_at > READY_RETRIES + 1

\* the state after n attempts from state s, of which `early` is the state
\* after one of the first n - 1 and `final` the state after the last one;
\* the frames of the n attempts make one block of the frame sequence
Merged(s, early, final, n) ==
  [final EXCEPT
     !.frames = [f \in DOMAIN @ |->
                   IF f \in DOMAIN s.frames
                     THEN s.frames[f] + (@[f] - s.frames[f]) * n
                   ELSE @[f] * n],
     !.wire.xfer = @ + (n - 1) * (early.wire.xfer - s.wire.xfer),
     !.wire.resp = Max(@, early.wire.resp),
     !.wire.seq =
        IF Len(@) = Len(s.wire.seq) THEN @
        ELSE Append(s.wire.seq,
                    [cmds |-> [i \in 1..(Len(@) - Len(s.wire.seq)) |->
                                 @[Len(s.wire.seq) + i].cmds[1]],
                     n |-> n])]

\* the state after n calls sd_send_cmd(cmd, arg) in a row, the last one
\* answered r and those before it r0 (an application command: CMD55
\* answered r55 every time)
Repeated(s, cmd, arg, idb, r55, r0, r, n) ==
  IF n = 1 THEN sd_send_cmd(s, cmd, arg, Answer(idb, r55), Answer(idb, r))
  ELSE Merged(s, sd_send_cmd(s, cmd, arg, Answer(idb, r55), Answer(idb, r0)),
              sd_send_cmd(s, cmd, arg, Answer(idb, r55), Answer(idb, r)), n)

\* the CMD0 loop
Cmd0Loop(s, idb) ==
  LET ready_at == IF Stuck(idb) THEN NEVER_READY ELSE idb.cmd0_at
      n == RetryLoop(CMD0_ATTEMPTS, ready_at)
      r == IF n >= ready_at THEN R1_IDLE_STATE ELSE 255
  IN Repeated(s, CMD0, 0, idb, 0, 255, r, n)

\* the ACMD41 loop; an attempt whose CMD55 is answered above 1 returns that
\* answer without sending ACMD41
Acmd41Loop(s, arg, idb) ==
  LET ready_at == IF idb.cmd55 > 1 \/ Stuck(idb) THEN NEVER_READY
                  ELSE idb.acmd41_at
      n == RetryLoop(ACMD41_ATTEMPTS, ready_at)
      r == IF n >= ready_at THEN 0 ELSE R1_IDLE_STATE
  IN Repeated(s, ACMD_FLAG + ACMD41, arg, idb, idb.cmd55, R1_IDLE_STATE, r, n)

\* the end of the identification; c16 is the state after CMD16
AfterCmd16(s, c16, saved_freq, elapsed) ==
  IF s.card_type # CT_SDHC /\ c16.ret # 0
    THEN IdentFail(c16, saved_freq, FALSE, elapsed, ERR_SD_INIT_FAILED)
  ELSE [(IF s.card_type # CT_SDHC THEN c16 ELSE s) EXCEPT
          !.current_spi_freq = saved_freq,
          !.sd_initialized = TRUE,
          !.ret = ERR_NONE]

\* CMD16 for cards that are not SDHC, then the frequency is restored
BlockLengthFix(s, saved_freq, idb, elapsed) ==
  AfterCmd16(s, spi_deselect(sd_send_cmd(s, CMD16, SECTOR_SIZE, Prompt(0),
                                         Answer(idb, idb.cmd16))),
             saved_freq, elapsed)

\* a version probe that looks only at the in-idle-state bit
Cmd8Path_IdleBit(response) ==
  IF BitSet(response, R1_IDLE_STATE) THEN "v2"
  ELSE IF BitSet(response, R1_ILLEGAL_CMD) THEN "v1"
  ELSE "none"

\* the branch taken on the response to CMD8
Cmd8Path(response) ==
  IF response = R1_IDLE_STATE THEN "v2"
  ELSE IF BitSet(response, R1_ILLEGAL_CMD) THEN "v1"
  ELSE "none"

\* the SD v2 path after CMD58: the OCR is read when CMD58 answered 0
AfterCmd58(v2b, saved_freq, idb, elapsed) ==
  BlockLengthFix(
    spi_deselect(
      IF v2b.ret = 0
        THEN [Clock(v2b, 4) EXCEPT
                !.card_type = IF BitSet(idb.ocr0, 64) THEN CT_SDHC
                              ELSE CT_SD2]
      ELSE v2b),
    saved_freq, idb, elapsed)

\* the SD v2 path after its ACMD41 loop
AfterAcmd41V2(v2a, saved_freq, idb, elapsed) ==
  IF v2a.ret # 0
    THEN IdentFail(v2a, saved_freq, TRUE, elapsed, ERR_SD_INIT_FAILED)
  ELSE AfterCmd58(sd_send_cmd(v2a, CMD58, 0, Prompt(0),
                              Answer(idb, idb.cmd58)),
                  saved_freq, idb, elapsed)

\* the SD v2 path after the four bytes of the CMD8 echo
AfterEcho(echo, saved_freq, idb, elapsed) ==
  IF idb.echo2 # 1 \/ idb.echo3 # 170
    THEN IdentFail(echo, saved_freq, FALSE, elapsed, ERR_SD_CARD_TYPE_UNKNOWN)
  ELSE AfterAcmd41V2(Acmd41Loop(echo, ACMD41_HCS, idb), saved_freq, idb,
                     elapsed)

\* the SD v1 path after its ACMD41 loop
AfterAcmd41V1(v1a, saved_freq, idb, elapsed) ==
  IF v1a.ret # 0
    THEN IdentFail(v1a, saved_freq, FALSE, elapsed, ERR_SD_INIT_FAILED)
  ELSE BlockLengthFix([v1a EXCEPT !.card_type = CT_SD1], saved_freq, idb,
                      elapsed)

\* the identification after CMD8
AfterCmd8(c8, saved_freq, idb, elapsed) ==
  IF Cmd8Path(c8.ret) = "v2"
    THEN AfterEcho(spi_deselect(Clock(c8, 4)), saved_freq, idb, elapsed)
  ELSE IF Cmd8Path(c8.ret) = "v1"
    THEN AfterAcmd41V1(Acmd41Loop(spi_deselect(c8), 0, idb), saved_freq, idb,
                       elapsed)
  ELSE IdentFail(c8, saved_freq, TRUE, elapsed, ERR_SD_INIT_FAILED)

\* the identification after the CMD0 loop
AfterCmd0(c0, saved_freq, idb, elapsed) ==
  IF c0.ret # R1_IDLE_STATE
    THEN IdentFail(c0, saved_freq, TRUE, elapsed, ERR_SD_INIT_FAILED)
  ELSE AfterCmd8(sd_send_cmd(c0, CMD8, CMD8_ARG, Prompt(0),
                             Answer(idb, idb.cmd8)),
                 saved_freq, idb, elapsed)

\* CMD0 .. CMD16; ret is ERR_NONE when the whole sequence succeeded
Identify(s, saved_freq, idb, elapsed) ==
  AfterCmd0(Cmd0Loop(s, idb), saved_freq, idb, elapsed)

\* a link initialisation that leaves the frequency as the caller had it
LinkInit_AtCallerFreq(s) == Clock(spi_deselect([s EXCEPT !.wire.cur = WARMUP]), 10)

\* the bus at 400 kHz, deselect, 10 bytes with chip-select high
LinkInit(s) ==
  Clock(spi_deselect([s EXCEPT !.current_spi_freq = SD_SPI_INIT_FREQ,
                               !.wire.cur = WARMUP]), 10)

\* sd_mount after the file locator
AfterLocate(s6, elapsed) ==
  IF ~s6.ret
    THEN [s6 EXCEPT !.last_init_time_us = elapsed, !.ret = ERR_FILE_OPEN_FAILED]
  ELSE [s6 EXCEPT
          !.sd_mounted = TRUE,
          !.last_init_time_us = elapsed,
          !.ret = ERR_NONE]

\* sd_mount after the volume locator
AfterVolume(s5, io, elapsed) ==
  IF ~s5.ret
    THEN [s5 EXCEPT !.last_init_time_us = elapsed, !.ret = ERR_FAT_VOLUME_FAILED]
  ELSE AfterLocate(fat32_find_or_create_file(s5, io), elapsed)

\* sd_mount after the identification
AfterIdentify(s4, io, elapsed) ==
  IF s4.ret # ERR_NONE THEN s4
  ELSE AfterVolume(fat32_read_bpb(s4, io), io, elapsed)

\* sd_mount once unmounted: saved_freq is the frequency at that point
MountUnmounted(s2, idb, io, elapsed) ==
  AfterIdentify(Identify([LinkInit(s2) EXCEPT !.answers = idb],
                         s2.current_spi_freq, idb, elapsed),
                io, elapsed)

\* sd_mount with the operating frequency set
MountAtFreq(s1, idb, io, elapsed) ==
  MountUnmounted(IF s1.sd_mounted THEN sd_unmount(s1) ELSE s1, idb, io,
                 elapsed)

sd_mount(s, freq_hz, idb, io, elapsed) ==
  MountAtFreq(IF freq_hz > 0 THEN [s EXCEPT !.current_spi_freq = freq_hz]
              ELSE s,
              idb, io, elapsed)

sd_controller_init(s) ==
  [s EXCEPT
     !.cs_high = TRUE,
     !.current_spi_freq = SD_SPI_FREQUENCY,
     !.sd_initialized = FALSE,
     !.sd_mounted = FALSE,
     !.card_type = CT_NONE,
     !.header_written = FALSE,
     !.ret = TRUE]

\* ------------------------------------------------------------------------
\* Append writer
\* ------------------------------------------------------------------------

Min(a, b) == IF a < b THEN a ELSE b

\* csv_byte_offset >= 512: the sector buffer is full
SectorFull(off) == off >= SECTOR_SIZE

\* a writer that never reads the current sector back
NeedsRead_Never(off) == FALSE

\* csv_byte_offset > 0: the current sector is read before the copy
NeedsRead(off) == off > 0

\* a length test that lets a text of exactly sizeof(line) bytes through
Overflows_Strict(len) == len > CSV_LINE_MAX_SIZE

\* len >= sizeof(line)
Overflows(len) == len >= CSV_LINE_MAX_SIZE

\* a writer that starts a fresh buffer without moving to the next sector
Advance_SameSector(s) ==
  [s EXCEPT
     !.csv_byte_offset = 0,
     !.sector_buffer = ZeroSector,
     !.filled = "zero"]

\* the sector is full: move to the next one with a zeroed buffer
Advance(s) ==
  [s EXCEPT
     !.csv_next_sector = (@ + 1),
     !.csv_byte_offset = 0,
     !.sector_buffer = ZeroSector,
     !.filled = "zero"]

RECURSIVE CopyLoop(_, _, _, _)
\* the copy loop of sd_write_csv_line, entered with bytes_written bytes of
\* the line already copied; ret is FALSE when a sector write failed
CopyLoop(s, line, bytes_written, io) ==
  IF bytes_written >= Len(line) THEN [s EXCEPT !.ret = TRUE]
  ELSE LET space_in_sector == U16(SECTOR_SIZE - s.csv_byte_offset)
           to_write == Min(Len(line) - bytes_written, space_in_sector)
           off == U16(s.csv_byte_offset + to_write)
           written == U16(bytes_written + to_write)
           copied == [s EXCEPT
                        !.sector_buffer =
                           MemCpy(@, s.csv_byte_offset,
                                  SubSeq(line, bytes_written + 1,
                                         bytes_written + to_write)),
                        !.from = s.csv_byte_offset,
                        !.csv_byte_offset = off]
           flushed == sd_write_sector(copied, copied.csv_next_sector, io)
           advanced == Advance(flushed)
       IN IF SectorFull(off) \/ written >= Len(line)
            THEN IF ~flushed.ret THEN flushed
                 ELSE IF SectorFull(off)
                   THEN CopyLoop(advanced, line, written, io)
                 ELSE CopyLoop(flushed, line, written, io)
          ELSE CopyLoop(copied, line, written, io)

\* the text of the call: the header when it is due, then the data row
CsvLine(header_due, a) ==
  (IF header_due THEN CSV_HEADER ELSE << >>) \o FormatRow(a)

sd_write_csv_line(s, a, io, elapsed) ==
  LET line == CsvLine(~s.header_written, a)
      s1 == [s EXCEPT !.header_written = TRUE]
      s2 == IF NeedsRead(s1.csv_byte_offset)
            THEN sd_read_sector(s1, s1.csv_next_sector, io)
            ELSE [s1 EXCEPT !.sector_buffer = ZeroSector, !.filled = "zero",
                            !.ret = TRUE]
      s3 == CopyLoop(s2, line, 0, io)
  IN IF ~s.sd_mounted THEN [s EXCEPT !.ret = ERR_SD_MOUNT_FAILED]
     ELSE IF Overflows(Len(line))
       THEN [s1 EXCEPT !.last_write_time_us = elapsed,
                       !.ret = ERR_BUFFER_OVERFLOW]
     ELSE IF ~s2.ret
       THEN [s2 EXCEPT !.last_write_time_us = elapsed,
                       !.ret = ERR_FILE_WRITE_FAILED]
     ELSE IF ~s3.ret
       THEN [s3 EXCEPT !.last_write_time_us = elapsed,
                       !.ret = ERR_FILE_WRITE_FAILED]
     ELSE [s3 EXCEPT !.last_write_time_us = elapsed, !.ret = ERR_NONE]

\* a health check that does not look at the result of its read
sd_health_check_IgnoresRead(s, io) ==
  IF ~s.sd_mounted THEN [s EXCEPT !.ret = ERR_SD_MOUNT_FAILED]
  ELSE [sd_read_sector(s, 0, io) EXCEPT !.ret = ERR_NONE]

\* a health check that reads the card whether or not it is mounted
sd_health_check_Unguarded(s, io) ==
  LET r == sd_read_sector(s, 0, io)
  IN IF ~r.ret THEN [r EXCEPT !.ret = ERR_SD_INIT_FAILED]
     ELSE [r EXCEPT !.ret = ERR_NONE]

sd_health_check(s, io) ==
  LET r == sd_read_sector(s, 0, io)
  IN IF ~s.sd_mounted THEN [s EXCEPT !.ret = ERR_SD_MOUNT_FAILED]
     ELSE IF ~r.ret THEN [r EXCEPT !.ret = ERR_SD_INIT_FAILED]
     ELSE [r EXCEPT !.ret = ERR_NONE]

\* ------------------------------------------------------------------------
\* Frequency ladder
\* ------------------------------------------------------------------------

\* a ladder that falls to its last rung at once
ReduceFrom_ToLast(s, i) ==
  IF spi_freq_table[Len(spi_freq_table)] < s.current_spi_freq
    THEN [s EXCEPT !.current_spi_freq = spi_freq_table[Len(spi_freq_table)],
                   !.ret = TRUE]
  ELSE [s EXCEPT !.ret = FALSE]

RECURSIVE ReduceFrom(_, _)
\* the loop of sd_reduce_frequency from table index i (1-based) on
ReduceFrom(s, i) ==
  IF i > Len(spi_freq_table) THEN [s EXCEPT !.ret = FALSE]
  ELSE IF spi_freq_table[i] < s.current_spi_freq
    THEN [s EXCEPT !.current_spi_freq = spi_freq_table[i], !.ret = TRUE]
  ELSE ReduceFrom(s, i + 1)

sd_reduce_frequency(s) == ReduceFrom(s, 1)

sd_reset_frequency(s) == [s EXCEPT !.current_spi_freq = SD_SPI_FREQUENCY]

\* ------------------------------------------------------------------------
\* Card information
\* ------------------------------------------------------------------------

\* the text sd_get_card_info copies for a card type: "SD1", "SD2", "SDHC",
\* "Unknown"
TypeLabel(type) ==
  CASE type = CT_SD1 -> << 83, 68, 49 >>
    [] type = CT_SD2 -> << 83, 68, 50 >>
    [] type = CT_SDHC -> << 83, 68, 72, 67 >>
    [] OTHER -> << 85, 110, 107, 110, 111, 119, 110 >>

\* the statics are left alone; ret is the error code with what was stored
\* through the two pointers (nothing when the call is refused)
sd_get_card_info(s) ==
  IF ~s.sd_initialized
    THEN [s EXCEPT !.ret = [err |-> ERR_SD_INIT_FAILED, type |-> << >>,
                            size_mb |-> 0]]
  ELSE [s EXCEPT !.ret = [err |-> ERR_NONE,
                          type |-> TypeLabel(s.card_type),
                          size_mb |-> s.geom.total_sectors \div 2048]]

\* ------------------------------------------------------------------------
\* Inputs of the public operations
\* ------------------------------------------------------------------------

\* frequencies passed to sd_mount (0: keep the current one)
MountFreqs == {0, 1000000}

\* 25 MHz, the highest frequency config.h and sd_controller.h mention
HIGH_FREQ == 25000000

\* rows passed to sd_write_csv_line: the smallest row (19 bytes), a row
\* that with the header is exactly as long as the line buffer (34 bytes),
\* the row of a typical cycle (39 bytes)
RowInputs ==
  { [timestamp_ms |-> 0, cycle |-> 0, success |-> TRUE, error_code |-> 0,
     init_time_us |-> 0, write_time_us |-> 0, spi_freq_used |-> 0,
     vbat_mv |-> 0, free_heap |-> 0],
    [timestamp_ms |-> 1234, cycle |-> 1, success |-> TRUE, error_code |-> 0,
     init_time_us |-> 500, write_time_us |-> 200, spi_freq_used |-> 4000000,
     vbat_mv |-> 3, free_heap |-> 123],
    [timestamp_ms |-> 1234, cycle |-> 1, success |-> TRUE, error_code |-> 0,
     init_time_us |-> 500, write_time_us |-> 200, spi_freq_used |-> 4000000,
     vbat_mv |-> 3700, free_heap |-> 20000] }

\* most block operations one public call can issue (sd_mount through a
\* partition table that creates the file)
MAX_BLOCK_OPS == 6

NoFault == [failAt |-> 0, landed |-> FALSE, how |-> "hang"]

\* a block operation that runs into the ceiling of its wait, having changed
\* the sector or not when it is a write
IoPlans ==
  {NoFault} \cup
  { [failAt |-> k, landed |-> l, how |-> "hang"] :
      k \in 1..MAX_BLOCK_OPS, l \in BOOLEAN }

\* the other ways in which a block operation fails: nothing is stored
IoPlansAnyCard ==
  IoPlans \cup
  { [failAt |-> k, landed |-> FALSE, how |-> h] :
      k \in 1..MAX_BLOCK_OPS, h \in {"rejected", "stuck", "silent", "data"} }

\* the answers of a healthy card of the given kind
Nominal(kind) ==
  [ cmd0_at |-> 1,
    cmd8 |-> IF kind = CT_SD1 THEN 5 ELSE R1_IDLE_STATE,
    echo2 |-> 1, echo3 |-> 170,
    cmd55 |-> R1_IDLE_STATE,
    acmd41_at |-> 1,
    cmd58 |-> 0,
    ocr0 |-> IF kind = CT_SDHC THEN 192 ELSE 128,
    cmd16 |-> 0,
    ready_at |-> 1 ]

\* the identification behaviours of a card: healthy, or one answer wrong
\* (0xFF is the answer of a card that does not respond), or ready only at
\* the last attempt of a retry loop
IdBehaviours(kind) ==
  LET n == Nominal(kind)
  IN { n,
       [n EXCEPT !.cmd0_at = NEVER_READY],
       [n EXCEPT !.cmd0_at = CMD0_ATTEMPTS],
       [n EXCEPT !.cmd8 = 255],
       [n EXCEPT !.cmd8 = 0],
       [n EXCEPT !.cmd8 = 3],
       [n EXCEPT !.echo3 = 0],
       [n EXCEPT !.cmd55 = 5],
       [n EXCEPT !.acmd41_at = NEVER_READY],
       [n EXCEPT !.acmd41_at = ACMD41_ATTEMPTS],
       [n EXCEPT !.cmd58 = 255],
       [n EXCEPT !.cmd16 = 255] }

\* what the card may do during one sd_mount: nothing wrong, or (while the
\* run may still see a fault) one wrong answer or one failing block operation
MountFaults(kind, allowed) ==
  { [idb |-> Nominal(kind), io |-> NoFault] } \cup
  (IF allowed
     THEN { [idb |-> b, io |-> NoFault] : b \in IdBehaviours(kind) } \cup
          { [idb |-> Nominal(kind), io |-> p] : p \in IoPlans }
     ELSE {})

\* what the card may do during the block operations of another call
IoFaults(allowed, n) ==
  {NoFault} \cup
  (IF allowed THEN { p \in IoPlans : p.failAt <= n } ELSE {})

\* micros() - start_time of a call
ELAPSED_US == 700

\* ------------------------------------------------------------------------
\* Application (main.cpp): setup(), then loop() with its aggressive cycles,
\* one step per call of the controller and per wait; the button interrupt
\* runs between any two steps
\* ------------------------------------------------------------------------

MAX_CONSECUTIVE_FAILURES == 10

SD_OPERATION_RETRIES == 3

\* the statistics before init_stats (statics are zeroed); the timing sums,
\* minima and maxima, which only go to the log, are left out
StatsZero ==
  [ total_cycles |-> 0, successful_cycles |-> 0, failed_cycles |-> 0,
    consecutive_failures |-> 0, spi_fallback_count |-> 0,
    last_error |-> ERR_NONE, current_spi_freq |-> 0 ]

\* cycle_result_t result = {0}
Result0 ==
  [ success |-> FALSE, error_code |-> ERR_NONE, init_time_us |-> 0,
    write_time_us |-> 0, spi_freq_used |-> 0 ]

\* the application when the processor starts: pc is where main.cpp stands,
\* stop_requested is its static flag; retry, err and result are the locals
\* of run_aggressive_cycle, and calls lists the calls of the controller the
\* cycle has made, each with its return value and the frequency
\* current_spi_freq at which it was made
AppInit ==
  [ pc |-> "setup", stats |-> StatsZero, stop_requested |-> FALSE,
    retry |-> 0, err |-> ERR_NONE, result |-> Result0, calls |-> << >> ]

init_stats == [StatsZero EXCEPT !.current_spi_freq = SD_SPI_FREQUENCY]

\* statistics whose failure counter survives a successful cycle
update_stats_KeepsCount(st, result) ==
  [st EXCEPT
     !.total_cycles = @ + 1,
     !.successful_cycles = IF result.success THEN @ + 1 ELSE @,
     !.failed_cycles = IF result.success THEN @ ELSE @ + 1,
     !.consecutive_failures = IF result.success THEN @ ELSE @ + 1,
     !.last_error = IF result.success THEN @ ELSE result.error_code,
     !.current_spi_freq = result.spi_freq_used]

update_stats(st, result) ==
  [st EXCEPT
     !.total_cycles = @ + 1,
     !.successful_cycles = IF result.success THEN @ + 1 ELSE @,
     !.failed_cycles = IF result.success THEN @ ELSE @ + 1,
     !.consecutive_failures = IF result.success THEN 0 ELSE @ + 1,
     !.last_error = IF result.success THEN @ ELSE result.error_code,
     !.current_spi_freq = result.spi_freq_used]

\* HW_Reset at the end of system_reboot: the processor starts again, every
\* static has its value of construction and the card keeps its contents
system_reboot(s) ==
  [s EXCEPT
     !.sd_initialized = FALSE,
     !.sd_mounted = FALSE,
     !.card_type = CT_NONE,
     !.current_spi_freq = SD_SPI_FREQUENCY,
     !.last_init_time_us = 0,
     !.last_write_time_us = 0,
     !.csv_next_sector = 0,
     !.csv_byte_offset = 0,
     !.sector_buffer = ZeroSector,
     !.header_written = FALSE,
     !.geom = GeomInit,
     !.cs_high = TRUE,
     !.app = AppInit]

\* the controller's state at the entry of its next public call
Fresh(s) ==
  [s EXCEPT
     !.bus = << >>, !.frames = << >>, !.answers = Unasked, !.wire = NoWire,
     !.ret = 0, !.filled = "none", !.filled_of = 0, !.from = 0]

\* button_press_handler, run by the interrupt of the button
button_press_handler(a) == [a EXCEPT !.stop_requested = TRUE]

\* setup() up to its return, or up to the wait that precedes the reboot
\* when the first mount fails (led_blink, then system_reboot): in that wait
\* the statics are those the failed sd_mount left; otherwise the card's
\* information is read, the card unmounted and the statistics initialised
setup(s, fault) ==
  LET m == sd_mount(Fresh(sd_controller_init(s)), 0, fault.idb, fault.io,
                    ELAPSED_US)
  IN IF m.ret # ERR_NONE THEN [m EXCEPT !.app.pc = "setup_failed"]
     ELSE [sd_unmount(Fresh(sd_get_card_info(Fresh(m)))) EXCEPT
             !.app.pc = "loop", !.app.stats = init_stats]

\* loop() with stop_requested set, up to the wait for the button:
\* sd_unmount(), led_set(true)
StopBranch(s) == [sd_unmount(Fresh(s)) EXCEPT !.app.pc = "stopped"]

\* run_aggressive_cycle from its entry to the waits of power_cycle(), which
\* changes nothing the controller keeps
CycleBegin(a) ==
  [a EXCEPT !.pc = "mount", !.retry = 0, !.err = ERR_NONE,
            !.result = Result0, !.calls = << >>]

\* loop() at the test of the interval: too early, it returns; otherwise
\* the cycle begins
IntervalTest(a, early) ==
  IF early THEN [a EXCEPT !.pc = "loop"] ELSE CycleBegin(a)

\* s1 is the state after the call op made in s, which returned ret
Called(s, op, s1, ret) ==
  [s1 EXCEPT
     !.app.calls = Append(@, [op |-> op, ret |-> ret,
                              freq |-> s.current_spi_freq])]

\* return result, with success and error_code set
Failed(c) ==
  [c EXCEPT !.app.result.success = FALSE, !.app.result.error_code = c.app.err]

\* result.init_time_us = sd_get_last_init_time_us();
\* result.spi_freq_used = sd_get_current_frequency()
WithInitTime(m) ==
  [m EXCEPT !.app.result.init_time_us = m.last_init_time_us,
            !.app.result.spi_freq_used = m.current_spi_freq]

\* loop() from update_stats(&result) to its return, or to the waits that
\* precede the reboot (led_blink, power_cycle, delay) after
\* MAX_CONSECUTIVE_FAILURES failures in a row
AfterCycle(c) ==
  LET st == update_stats(c.app.stats, c.app.result)
  IN [c EXCEPT
        !.app.stats = st,
        !.app.pc = IF st.consecutive_failures >= MAX_CONSECUTIVE_FAILURES
                     THEN "rebooting" ELSE "loop"]

\* err = sd_mount(0), the card doing `fault`
MountAttempt(s, fault) ==
  LET m == sd_mount(Fresh(s), 0, fault.idb, fault.io, ELAPSED_US)
  IN [Called(s, "mount", m, m.ret) EXCEPT !.app.err = m.ret]

\* a mount loop that does not stop at a success
MountDone_Never(err) == FALSE

\* if (err == ERR_NONE) break
MountDone(err) == err = ERR_NONE

\* the mount loop after the call of sd_mount: the write loop is next, or
\* the wait delay(SD_RETRY_DELAY_MS)
MountTried(m) ==
  IF MountDone(m.app.err)
    THEN [WithInitTime(m) EXCEPT !.app.pc = "write", !.app.retry = 0]
  ELSE [m EXCEPT !.app.pc = "mount_failed"]

\* #define SPI_FREQUENCY_FALLBACK 1
SPI_FREQUENCY_FALLBACK == TRUE

\* if (sd_reduce_frequency()) stats.spi_fallback_count++
Fallback(s) ==
  LET r == sd_reduce_frequency(Fresh(s))
  IN Called(s, "reduce",
            IF r.ret THEN [r EXCEPT !.app.stats.spi_fallback_count = @ + 1]
            ELSE r,
            IF r.ret THEN 1 ELSE 0)

\* retry++ and the test of the mount loop: another attempt, or the cycle
\* returns its failure to loop()
MountRetry(r) ==
  IF r.app.retry + 1 < SD_OPERATION_RETRIES
    THEN [r EXCEPT !.app.retry = @ + 1, !.app.pc = "mount"]
  ELSE AfterCycle(Failed(WithInitTime([r EXCEPT !.app.retry = @ + 1])))

\* err = sd_write_csv_line(cycle_num, &temp_result, timestamp), the card
\* following the plan io; env holds millis(), the battery and the heap
WriteAttempt(s, env, io) ==
  LET w == sd_write_csv_line(
             Fresh(s),
             [ timestamp_ms |-> env.timestamp_ms,
               cycle |-> s.app.stats.total_cycles + 1,
               success |-> TRUE, error_code |-> ERR_NONE,
               init_time_us |-> s.app.result.init_time_us,
               write_time_us |-> s.app.result.write_time_us,
               spi_freq_used |-> s.app.result.spi_freq_used,
               vbat_mv |-> env.vbat_mv, free_heap |-> env.free_heap ],
             io, ELAPSED_US)
  IN [Called(s, "write", w, w.ret) EXCEPT !.app.err = w.ret]

\* the write loop after the call of sd_write_csv_line: the wait
\* delay(SD_RETRY_DELAY_MS) and, unless it was the last attempt, the next
\* one; after the loop result.write_time_us = sd_get_last_write_time_us()
\* and sd_unmount() is next
WriteTried(w) ==
  IF w.app.err # ERR_NONE /\ w.app.retry + 1 < SD_OPERATION_RETRIES
    THEN [w EXCEPT !.app.retry = @ + 1]
  ELSE [(IF w.app.err # ERR_NONE THEN Failed(w) ELSE w) EXCEPT
          !.app.result.write_time_us = w.last_write_time_us,
          !.app.pc = "unmount"]

\* sd_unmount()
Unmounting(s) ==
  LET u == sd_unmount(Fresh(s))
  IN Called(s, "unmount", u, u.ret)

\* run_aggressive_cycle after sd_unmount(): when the write loop failed the
\* result stands, otherwise err = sd_unmount() decides
AfterCycleUnmount(u) ==
  IF u.app.err # ERR_NONE THEN u
  ELSE IF u.ret # ERR_NONE THEN Failed([u EXCEPT !.app.err = u.ret])
  ELSE [u EXCEPT !.app.result.success = TRUE,
                 !.app.result.error_code = ERR_NONE]

\* ------------------------------------------------------------------------
\* Actions: one per public operation
\* ------------------------------------------------------------------------

\* the record of a call: operation, return value, frequency argument of
\* sd_mount, text formatted by sd_write_csv_line, and for sd_mount whether
\* the session was mounted when it was called
Call(op, ret, arg, line) ==
  [op |-> op, ret |-> ret, arg |-> arg, line |-> line, remount |-> FALSE]

\* the card misbehaved in the call that ended in s under the plan io
Faulted(s, io) == io.failAt \in 1..Len(s.bus)

\* plans that differ in nothing the call could observe are taken once
Relevant(s, io) ==
  \/ io = NoFault
  \/ /\ Faulted(s, io)
     /\ io.landed => s.bus[io.failAt].op = "write"

\* the statics and the card after a call
Set(s) ==
  /\ card' = s.card
  /\ cardKind' = s.kind
  /\ sd_initialized' = s.sd_initialized
  /\ sd_mounted' = s.sd_mounted
  /\ card_type' = s.card_type
  /\ current_spi_freq' = s.current_spi_freq
  /\ last_init_time_us' = s.last_init_time_us
  /\ last_write_time_us' = s.last_write_time_us
  /\ csv_next_sector' = s.csv_next_sector
  /\ csv_byte_offset' = s.csv_byte_offset
  /\ sector_buffer' = s.sector_buffer
  /\ header_written' = s.header_written
  /\ geom' = s.geom
  /\ cs_high' = s.cs_high
  /\ bus' = s.bus
  /\ frames' = s.frames
  /\ answers' = s.answers
  /\ wire' = s.wire
  /\ app' = s.app

Pos(sector, offset) == sector * SECTOR_SIZE + offset

\* the state after construction, with one of the given cards inserted
InitOn(images) ==
  /\ \E img \in images :
       /\ card = CardSectors(img.first, DirImages[img.dir], img.signed)
       /\ cardKind = img.kind
  /\ sd_initialized = FALSE
  /\ sd_mounted = FALSE
  /\ card_type = CT_NONE
  /\ current_spi_freq = SD_SPI_FREQUENCY
  /\ last_init_time_us = 0
  /\ last_write_time_us = 0
  /\ csv_next_sector = 0
  /\ csv_byte_offset = 0
  /\ sector_buffer = ZeroSector
  /\ header_written = FALSE
  /\ geom = GeomInit
  /\ cs_high = TRUE
  /\ last = Call("boot", 0, 0, << >>)
  /\ bus = << >>
  /\ frames = << >>
  /\ answers = Unasked
  /\ wire = NoWire
  /\ written_end = 0
  /\ session_wrote = FALSE
  /\ nEvents = 0
  /\ app = AppInit

Init == InitOn(CardImages)

SdInit ==
  /\ \E s \in {sd_controller_init(State)} : Set(s)
  /\ last' = Call("init", 1, 0, << >>)
  /\ session_wrote' = FALSE
  /\ UNCHANGED << written_end, nEvents >>

\* the plans of the set that make one of the block operations ops fail;
\* a plan with `landed` applies to a write only
ApplicablePlans(plans, ops) ==
  { io \in plans :
      \/ io = NoFault
      \/ /\ io.failAt \in 1..Len(ops)
         /\ io.landed => ops[io.failAt].op = "write" }

\* sd_mount at one of the frequencies, the card doing one of `faults`
MountUnder(freqs, faults) ==
  \E freq_hz \in freqs :
  \E healthy \in {sd_mount(State, freq_hz, Nominal(cardKind), NoFault,
                           ELAPSED_US)} :
  \E f \in {g \in faults : g.io \in ApplicablePlans({g.io}, healthy.bus)} :
  \E s \in {IF f.idb = Nominal(cardKind) /\ f.io = NoFault THEN healthy
            ELSE sd_mount(State, freq_hz, f.idb, f.io, ELAPSED_US)} :
    LET faulty == f.idb # Nominal(cardKind) \/ Faulted(s, f.io)
    IN /\ Relevant(s, f.io)
       /\ Set(s)
       /\ last' = [Call("mount", s.ret, freq_hz, << >>) EXCEPT
                     !.remount = sd_mounted]
       /\ session_wrote' = FALSE
       /\ nEvents' = IF faulty THEN nEvents + 1 ELSE nEvents
       /\ UNCHANGED << written_end >>

MountWith(freqs) ==
  MountUnder(freqs, MountFaults(cardKind, nEvents < MaxEvents))

Mount == MountWith(MountFreqs)

\* sd_mount at any of MountFreqs or at a frequency above the ladder
MountAnyFreq == MountWith(MountFreqs \cup {HIGH_FREQ})

\* sd_mount(0), the call of the application's cycles
MountDefault == MountWith({0})

Unmount ==
  /\ \E s \in {sd_unmount(State)} : Set(s)
  /\ last' = Call("unmount", ERR_NONE, 0, << >>)
  /\ UNCHANGED << written_end, session_wrote, nEvents >>

\* sd_write_csv_line, the card following one of the plans, in a run of at
\* most `events` events
WriteUnder(plans, events) ==
  /\ nEvents < events
  /\ \E a \in RowInputs :
     \E healthy \in {sd_write_csv_line(State, a, NoFault, ELAPSED_US)} :
     \E io \in ApplicablePlans(plans, healthy.bus) :
     \E s \in {IF io = NoFault THEN healthy
               ELSE sd_write_csv_line(State, a, io, ELAPSED_US)} :
       LET line == CsvLine(~header_written, a)
       IN /\ Relevant(s, io)
          /\ nEvents' = IF s.bus # << >> THEN nEvents + 1 ELSE nEvents
          /\ Set(s)
          /\ last' = Call("write", s.ret, 0, line)
          /\ written_end' =
               IF s.ret = ERR_NONE
                 THEN Pos(csv_next_sector, csv_byte_offset) + Len(line)
                 ELSE written_end
          /\ session_wrote' = (session_wrote \/ s.ret = ERR_NONE)

WriteCsvLine == WriteUnder(IoFaults(nEvents < MaxEvents, 3), MaxEvents)

\* sd_health_check, the card following one of the plans
HealthUnder(plans) ==
  \E io \in plans :
  \E s \in {sd_health_check(State, io)} :
       /\ Relevant(s, io)
       /\ nEvents' = IF Faulted(s, io) THEN nEvents + 1 ELSE nEvents
       /\ Set(s)
       /\ last' = Call("health", s.ret, 0, << >>)
       /\ UNCHANGED << written_end, session_wrote >>

HealthCheck == HealthUnder(IoFaults(nEvents < MaxEvents, 1))

ReduceFrequency ==
  \E s \in {sd_reduce_frequency(State)} :
     /\ Set(s)
     /\ last' = Call("reduce", IF s.ret THEN 1 ELSE 0, 0, << >>)
     /\ UNCHANGED << written_end, session_wrote, nEvents >>

ResetFrequency ==
  /\ \E s \in {sd_reset_frequency(State)} : Set(s)
  /\ last' = Call("reset", 0, 0, << >>)
  /\ UNCHANGED << written_end, session_wrote, nEvents >>

\* sd_get_card_info with both pointers given: `last` holds the error code,
\* the size and the type text
GetCardInfo ==
  \E s \in {sd_get_card_info(State)} :
     /\ Set(s)
     /\ last' = Call("info", s.ret.err, s.ret.size_mb, s.ret.type)
     /\ UNCHANGED << written_end, session_wrote, nEvents >>

Next ==
  \/ SdInit
  \/ Mount
  \/ Unmount
  \/ WriteCsvLine
  \/ HealthCheck
  \/ ReduceFrequency
  \/ ResetFrequency

Spec == Init /\ [][Next]_vars

\* card sessions as the application's cycles run them: sd_mount(0), no
\* re-initialisation and no ladder operation
NextSession ==
  \/ MountDefault
  \/ Unmount
  \/ WriteCsvLine
  \/ HealthCheck

SpecSession == Init /\ [][NextSession]_vars

\* mounting and the frequency ladder, without the append writer
NextFrequency ==
  \/ SdInit
  \/ MountAnyFreq
  \/ Unmount
  \/ ReduceFrequency
  \/ ResetFrequency

SpecFrequency == Init /\ [][NextFrequency]_vars

\* the life of a session: initialisation, sd_mount(0), the operations of a
\* mounted session and sd_unmount, without the ladder
NextLifecycle ==
  \/ SdInit
  \/ MountDefault
  \/ Unmount
  \/ WriteCsvLine
  \/ HealthCheck

SpecLifecycle == Init /\ [][NextLifecycle]_vars

\* mounting cards with the root directories of LocatorImages
InitLocator == InitOn(LocatorImages)

NextLocator ==
  \/ MountDefault
  \/ Unmount

SpecLocator == InitLocator /\ [][NextLocator]_vars

\* cards on which the file exists with a start cluster that is not the one
\* the creation path uses: an empty file as other systems record it (start
\* cluster 0), a file recorded in the cluster of the root directory
EntryImages ==
  { [kind |-> CT_SDHC, first |-> 0, dir |-> "fileNoCluster", signed |-> TRUE],
    [kind |-> CT_SD2,  first |-> 1, dir |-> "fileAtRoot", signed |-> TRUE],
    [kind |-> CT_SD1,  first |-> 0, dir |-> "file1100", signed |-> TRUE] }

InitEntry == InitOn(EntryImages)

\* sd_write_csv_line in runs that are one event longer, so that a call can
\* fail between two calls that succeed
WriteRetried == WriteUnder(IoFaults(nEvents < MaxEvents + 1, 3), MaxEvents + 1)

\* sessions on the cards of EntryImages
NextEntry ==
  \/ MountDefault
  \/ Unmount
  \/ WriteRetried

SpecEntry == InitEntry /\ [][NextEntry]_vars

\* mounting and asking for the card's type and size
NextInfo ==
  \/ SdInit
  \/ MountDefault
  \/ Unmount
  \/ GetCardInfo

SpecInfo == Init /\ [][NextInfo]_vars

\* what the card may do during one sd_mount of the application: nothing
\* wrong, no answer to CMD0 (no card, no power), a first block read that
\* times out
AppMountFaults(kind) ==
  [ healthy |-> [idb |-> Nominal(kind), io |-> NoFault],
    absent |-> [idb |-> [Nominal(kind) EXCEPT !.cmd0_at = NEVER_READY],
                io |-> NoFault],
    unreadable |-> [idb |-> Nominal(kind),
                    io |-> [failAt |-> 1, landed |-> FALSE, how |-> "hang"]] ]

\* the card during an attempt of the write loop: healthy, or the first
\* block operation times out
AppWriteFaults == {NoFault, [failAt |-> 1, landed |-> FALSE, how |-> "hang"]}

\* millis(), the battery and the heap of a typical cycle
TypicalRow == CHOOSE a \in RowInputs : a.free_heap > a.vbat_mv

\* the card of the application's runs: the file exists
AppImages ==
  { [kind |-> CT_SD2, first |-> 0, dir |-> "file473", signed |-> TRUE] }

InitApp == InitOn(AppImages)

\* everything but the application and the record of the last call
controller ==
  << card, cardKind, sd_initialized, sd_mounted, card_type, current_spi_freq,
     last_init_time_us, last_write_time_us, csv_next_sector, csv_byte_offset,
     sector_buffer, header_written, geom, cs_high, bus, frames, answers,
     wire, written_end, session_wrote, nEvents >>

\* a step of the application that ends in the state s after the call op
AppStep(s, op) ==
  /\ Set(s)
  /\ last' = Call(op, s.ret, 0, << >>)
  /\ UNCHANGED << written_end, session_wrote, nEvents >>

\* setup(), from the start of the processor to the first loop() or to the
\* wait that precedes the reboot
Setup ==
  /\ app.pc = "setup"
  /\ \E k \in DOMAIN AppMountFaults(cardKind) :
     \E s \in {setup(State, AppMountFaults(cardKind)[k])} :
       /\ Set(s)
       /\ last' = Call("setup", IF s.app.pc = "loop" THEN 1 ELSE 0, 0, << >>)
       /\ UNCHANGED << written_end, session_wrote, nEvents >>

\* HW_Reset(0) in system_reboot(), called by setup() after a failed first
\* mount and by loop() after MAX_CONSECUTIVE_FAILURES failures in a row;
\* `last` keeps the count of failures in a row at the reset
Reboot ==
  /\ app.pc \in {"setup_failed", "rebooting"}
  /\ Set(system_reboot(State))
  /\ last' = Call("reboot", 0, app.stats.consecutive_failures, << >>)
  /\ UNCHANGED << written_end, session_wrote, nEvents >>

\* the interrupt of the user button, attached by setup() before its first
\* call of the controller
ButtonPress ==
  /\ app.pc # "setup"
  /\ ~app.stop_requested
  /\ app' = button_press_handler(app)
  /\ UNCHANGED << controller, last >>

\* loop() finds stop_requested set: sd_unmount(), then it waits for the
\* button
LoopStop ==
  /\ app.pc = "loop"
  /\ app.stop_requested
  /\ AppStep(StopBranch(State), "unmount")

\* the user presses the button again: loop() clears stop_requested and goes
\* on to the test of the interval
LoopResume ==
  /\ app.pc = "stopped"
  /\ \E early \in BOOLEAN :
       /\ ~early => app.stats.total_cycles < MaxCycles
       /\ app' = IntervalTest([app EXCEPT !.stop_requested = FALSE], early)
  /\ UNCHANGED << controller, last >>

\* loop() with stop_requested clear when CYCLE_INTERVAL_MS has passed: the
\* cycle begins (earlier than that, loop() returns and nothing changes)
LoopInterval ==
  /\ app.pc = "loop"
  /\ ~app.stop_requested
  /\ app.stats.total_cycles < MaxCycles
  /\ app' = IntervalTest(app, FALSE)
  /\ UNCHANGED << controller, last >>

\* an attempt of the mount loop: in the first two the card is healthy or
\* absent, in the third healthy or unreadable
CycleMount ==
  /\ app.pc = "mount"
  /\ \E k \in {"healthy",
               IF app.retry + 1 < SD_OPERATION_RETRIES THEN "absent"
               ELSE "unreadable"} :
       AppStep(MountTried(MountAttempt(State, AppMountFaults(cardKind)[k])),
               "mount")

\* the mount loop goes on after delay(SD_RETRY_DELAY_MS)
CycleFallback ==
  /\ app.pc = "mount_failed"
  /\ \E s \in {MountRetry(IF SPI_FREQUENCY_FALLBACK THEN Fallback(State)
                           ELSE State)} :
       /\ Set(s)
       /\ last' = Call("reduce", IF s.ret THEN 1 ELSE 0, 0, << >>)
       /\ UNCHANGED << written_end, session_wrote, nEvents >>

\* an attempt of the write loop: the card is healthy or its first block
\* operation times out
CycleWrite ==
  /\ app.pc = "write"
  /\ \E io \in AppWriteFaults :
       AppStep(WriteTried(WriteAttempt(State, TypicalRow, io)), "write")

\* sd_unmount() at the end of the cycle, then loop() up to its return or
\* to the wait that precedes the reboot
CycleUnmount ==
  /\ app.pc = "unmount"
  /\ AppStep(AfterCycle(AfterCycleUnmount(Unmounting(State))), "unmount")

\* the application from the start of the processor on
NextApp ==
  \/ Setup
  \/ Reboot
  \/ ButtonPress
  \/ LoopStop
  \/ LoopResume
  \/ LoopInterval
  \/ CycleMount
  \/ CycleFallback
  \/ CycleWrite
  \/ CycleUnmount

SpecApp == InitApp /\ [][NextApp]_vars

\* the command engine alone: what the card does during one frame
CommandLines ==
  { Line(ready_at, resp_at, r, filler) :
      ready_at \in {1, READY_RETRIES + 1, READY_RETRIES + 2},
      resp_at \in {1, RESPONSE_POLLS, RESPONSE_POLLS + 1},
      r \in {0, R1_ILLEGAL_CMD},
      filler \in {255, 128} }

\* what the card does during the CMD55 frame of an application command:
\* an answer at once, a line that is never released, no response
Cmd55Lines ==
  { Prompt(0), Prompt(R1_IDLE_STATE), Prompt(R1_ILLEGAL_CMD),
    Line(NEVER_ARRIVES, 1, 0, 255), Line(1, RESPONSE_POLLS + 1, 0, 255) }

\* the calls of sd_send_cmd: command, argument, the card during CMD55 (an
\* application command) and during the frame of the command
CommandInputs ==
  { [cmd |-> c, arg |-> 0, line55 |-> Prompt(0), line |-> l] :
      c \in {CMD0, CMD17}, l \in CommandLines } \cup
  { [cmd |-> ACMD_FLAG + ACMD41, arg |-> a, line55 |-> l55, line |-> l] :
      a \in {0, ACMD41_HCS}, l55 \in Cmd55Lines, l \in CommandLines }

InitCommand ==
  InitOn({[kind |-> CT_SD2, first |-> 0, dir |-> "file473", signed |-> TRUE]})

\* one call of sd_send_cmd; `answers` holds what the card did
SendCommand ==
  \E in \in CommandInputs :
  \E s \in {sd_send_cmd([State EXCEPT
                           !.answers = [line55 |-> in.line55, line |-> in.line]],
                        in.cmd, in.arg, in.line55, in.line)} :
    /\ Set(s)
    /\ last' = Call("cmd", s.ret, in.cmd, << in.arg >>)
    /\ UNCHANGED << written_end, session_wrote, nEvents >>

NextCommand == SendCommand

SpecCommand == InitCommand /\ [][NextCommand]_vars

\* every way in which the card can keep the controller waiting: the
\* identification behaviours, a line released only at the last byte polled
\* before a command or never, and every failure of a block operation
AnyCardFaults(kind, allowed) ==
  MountFaults(kind, allowed) \cup
  (IF allowed
     THEN { [idb |-> [Nominal(kind) EXCEPT !.ready_at = at], io |-> NoFault] :
              at \in {READY_RETRIES + 1, NEVER_ARRIVES} } \cup
          { [idb |-> Nominal(kind), io |-> p] : p \in IoPlansAnyCard }
     ELSE {})

\* the block operation plans of a call other than sd_mount on any card
AnyCardPlans(allowed, n) ==
  {NoFault} \cup
  (IF allowed THEN { p \in IoPlansAnyCard : p.failAt <= n } ELSE {})

\* the card of the runs on any card: behind a partition table, the file
\* created in the slot of a deleted entry
WireImages ==
  { [kind |-> CT_SDHC, first |-> 1, dir |-> "deleted", signed |-> TRUE] }

InitWire == InitOn(WireImages)

MountAnyCard == MountUnder({0}, AnyCardFaults(cardKind, nEvents < MaxEvents))

WriteAnyCard == WriteUnder(AnyCardPlans(nEvents < MaxEvents, 3), MaxEvents)

HealthAnyCard == HealthUnder(AnyCardPlans(nEvents < MaxEvents, 1))

\* the public operations on a card that may fail in any way
NextWire ==
  \/ MountAnyCard
  \/ Unmount
  \/ WriteAnyCard
  \/ HealthAnyCard

SpecWire == InitWire /\ [][NextWire]_vars

\* ------------------------------------------------------------------------
\* Vocabulary of the properties
\* ------------------------------------------------------------------------

\* the write operations among the block operations b, in order
Writes(b) == SelectSeq(b, LAMBDA e : e.op = "write")

\* no block operation of b failed
AllOk(b) == \A k \in 1..Len(b) : b[k].ok

\* the sector of the card that the controller's sector number selects
Target(sector) == CardSector(cardKind, BlockAddr(card_type, sector))

\* the sector the file locator scans
RootSector(g) == cluster_to_sector(g, g.root_cluster)

\* the directory sector dir holds an entry with the name of the file
HasCsvEntry(dir) ==
  \E i \in 0..(DIR_ENTRIES - 1) :
    \A j \in 0..10 : At(dir, i * 32 + j) = CSV_NAME_83[j + 1]

\* the slots of dir that are free: never used (0x00) or deleted (0xE5)
FreeSlots(dir) ==
  {i \in 0..(DIR_ENTRIES - 1) : At(dir, i * 32) \in {0, 229}}

FirstFreeSlot(dir) ==
  CHOOSE i \in FreeSlots(dir) : \A j \in FreeSlots(dir) : i <= j

\* ------------------------------------------------------------------------
\* C1..C10
\* ------------------------------------------------------------------------

\* C1: after a session in which a writeCsvLine succeeded, unmount followed
\* by a successful mount that finds the directory entry leaves the cursor
\* (csv_next_sector, csv_byte_offset) as it was before the unmount.
C1_RemountRecoversCursor ==
  [][ ( /\ last.op = "unmount"
        /\ session_wrote
        /\ last'.op = "mount"
        /\ last'.ret = ERR_NONE
        /\ header_written' )
      => ( /\ csv_next_sector' = csv_next_sector
           /\ csv_byte_offset' = csv_byte_offset ) ]_vars

\* C2: the file is append-only: a successful writeCsvLine starts at or
\* after the end of everything earlier successful calls wrote.
C2_AppendOnly ==
  [][ (last'.op = "write" /\ last'.ret = ERR_NONE)
      => Pos(csv_next_sector, csv_byte_offset) >= written_end ]_vars

\* C3: the first writeCsvLine after a mount that created the file returns
\* success, whatever the row, and stores the header followed by the row at
\* offset 0 of the file's first sector; header_written is then TRUE.
C3_FirstWriteEmitsHeader ==
  [][ ( /\ sd_mounted
        /\ ~header_written
        /\ last'.op = "write"
        /\ AllOk(bus') )
      => ( /\ last'.ret = ERR_NONE
           /\ header_written'
           /\ SubSeq(last'.line, 1, Len(CSV_HEADER)) = CSV_HEADER
           /\ \A i \in 1..Len(last'.line) :
                At(card'[Target(csv_next_sector)], i - 1) = last'.line[i] ) ]_vars

\* C4: a mount that reaches the file locator on a directory sector without
\* an entry of the file's name and with a free slot, all block operations
\* succeeding, returns success, has stored in the first free slot an entry
\* of that name with start cluster 3 and size 0, leaves the cursor at
\* (data_start_sector + (3 - 2) * sectors_per_cluster, 0) and
\* header_written FALSE.
C4_MountCreatesFile ==
  [][ ( /\ last'.op = "mount"
        /\ last'.ret \in {ERR_NONE, ERR_FILE_OPEN_FAILED}
        /\ AllOk(bus')
        /\ ~HasCsvEntry(card[RootSector(geom')])
        /\ FreeSlots(card[RootSector(geom')]) # {} )
      => LET root == RootSector(geom')
             e == EntryAt(card'[root], FirstFreeSlot(card[root]))
         IN /\ last'.ret = ERR_NONE
            /\ SubSeq(e, 1, 11) = CSV_NAME_83
            /\ LE16(e, 26) + 65536 * LE16(e, 20) = 3
            /\ LE32(e, 28) = 0
            /\ csv_next_sector' =
                 geom'.data_start_sector + (3 - 2) * geom'.sectors_per_cluster
            /\ csv_byte_offset' = 0
            /\ ~header_written' ]_vars

\* a mount has just created the file
C4_Witness ==
  /\ last.op = "mount"
  /\ last.ret = ERR_NONE
  /\ sd_mounted
  /\ ~header_written
  /\ Len(Writes(bus)) = 2

\* C5: a writeCsvLine call on a mounted card whose text (header, if due,
\* plus row) is 128 bytes or longer returns the buffer-overflow error and
\* issues no block operation.
C5_OverflowTouchesNothing ==
  (last.op = "write" /\ sd_mounted /\ Len(last.line) >= 128)
    => (last.ret = ERR_BUFFER_OVERFLOW /\ bus = << >>)

\* a call with a text of exactly 128 bytes was refused
C5_Witness ==
  /\ last.op = "write"
  /\ Len(last.line) = 128
  /\ last.ret = ERR_BUFFER_OVERFLOW

\* C6: a successful writeCsvLine with cursor offset o and text length L
\* issues one sector write and ends at (next + 1, 0) when o + L = 512,
\* issues two, to next and next + 1, and ends at (next + 1, o + L - 512)
\* when o + L > 512, and issues one and keeps the sector when o + L < 512.
C6_FlushesAtBoundary ==
  [][ (last'.op = "write" /\ last'.ret = ERR_NONE)
      => LET o == csv_byte_offset
             L == Len(last'.line)
             w == Writes(bus')
         IN /\ o + L = 512 =>
                 /\ Len(w) = 1
                 /\ csv_next_sector' = csv_next_sector + 1
                 /\ csv_byte_offset' = 0
            /\ o + L > 512 =>
                 /\ Len(w) = 2
                 /\ w[1].sector = csv_next_sector
                 /\ w[2].sector = csv_next_sector + 1
                 /\ csv_next_sector' = csv_next_sector + 1
                 /\ csv_byte_offset' = o + L - 512
            /\ o + L < 512 =>
                 /\ Len(w) = 1
                 /\ csv_next_sector' = csv_next_sector ]_vars

\* a text has just filled its sector exactly
C6_Witness ==
  /\ last.op = "write"
  /\ last.ret = ERR_NONE
  /\ csv_byte_offset = 0
  /\ Len(Writes(bus)) = 1
  /\ written_end = Pos(csv_next_sector, 0)

\* C7: in a writeCsvLine call, a sector write whose buffer was filled from
\* a nonzero offset follows a successful read of the same sector in the
\* same call and stores the bytes before that offset unchanged; a
\* zero-filled buffer is written only when the copy started at offset 0.
C7_ReadBeforePartialWrite ==
  [][ last'.op = "write"
      => \A k \in 1..Len(bus') :
           LET e == bus'[k]
           IN e.op = "write" =>
                /\ e.from # 0 =>
                     /\ e.filled = "read"
                     /\ e.filled_of = e.sector
                     /\ \E j \in 1..(k - 1) :
                          /\ bus'[j].op = "read"
                          /\ bus'[j].sector = e.sector
                          /\ bus'[j].ok
                     /\ e.ok =>
                          \A i \in 0..(e.from - 1) :
                            At(card'[Target(e.sector)], i)
                              = At(card[Target(e.sector)], i)
                /\ e.filled = "zero" => e.from = 0 ]_vars

\* a line has just been appended behind the bytes a sector already held
C7_Witness ==
  /\ last.op = "write"
  /\ last.ret = ERR_NONE
  /\ Len(bus) >= 2
  /\ bus[1].op = "read"
  /\ bus[2].op = "write"
  /\ bus[2].from > 0

\* C8: csv_byte_offset is in 0..511 whenever a public operation has
\* returned.
C8_OffsetInRange == csv_byte_offset \in 0..511

\* C9: a mount that returns SD_INIT_FAILED or SD_CARD_TYPE_UNKNOWN leaves
\* card_type as it was.
C9_CardTypeOnlyOnSuccess ==
  [][ ( /\ last'.op = "mount"
        /\ last'.ret \in {ERR_SD_INIT_FAILED, ERR_SD_CARD_TYPE_UNKNOWN} )
      => card_type' = card_type ]_vars

\* C10: when mount(f) returns, on any path, the current frequency is f
\* when f > 0 and what it was before the call when f = 0.
C10_MountRestoresFrequency ==
  [][ last'.op = "mount"
      => current_spi_freq' =
           IF last'.arg > 0 THEN last'.arg ELSE current_spi_freq ]_vars

\* mount(0) has failed in the identification and the frequency is still
\* the one set on the ladder before the call
C10_Witness ==
  /\ last.op = "mount"
  /\ last.arg = 0
  /\ last.ret = ERR_SD_INIT_FAILED
  /\ current_spi_freq = 1000000

\* how often the last call sent a frame of command cmd
TimesSent(sent, cmd) ==
  LET fs == {f \in DOMAIN sent : f.cmd = cmd}
  IN IF fs = {} THEN 0 ELSE sent[CHOOSE f \in fs : TRUE] * Cardinality(fs)

\* the commands of which the last call sent a frame
CommandsSent(sent) == {f.cmd : f \in DOMAIN sent}

\* C11: a mount sends CMD0 at most 100 times, and when the card answers
\* none of the 100 with 0x01 the mount returns SD_INIT_FAILED having sent
\* CMD0 100 times and no other command.
C11_Cmd0Bounded ==
  [][ last'.op = "mount"
      => /\ TimesSent(frames', CMD0) \in 1..100
         /\ answers'.cmd0_at > 100 =>
               /\ last'.ret = ERR_SD_INIT_FAILED
               /\ TimesSent(frames', CMD0) = 100
               /\ CommandsSent(frames') = {CMD0} ]_vars

\* a mount has failed on a card that never answered CMD0 with 0x01
C11_Witness ==
  /\ last.op = "mount"
  /\ last.ret = ERR_SD_INIT_FAILED
  /\ answers.cmd0_at > 100
  /\ CommandsSent(frames) = {CMD0}

\* C12: a mount attempts ACMD41 at most 1000 times, on the v1 and on the
\* v2 path; when the loop is reached and no attempt is answered 0 the
\* mount returns SD_INIT_FAILED after exactly 1000 attempts.
C12_Acmd41Bounded ==
  [][ last'.op = "mount"
      => /\ TimesSent(frames', CMD55) <= 1000
         /\ TimesSent(frames', ACMD41) <= TimesSent(frames', CMD55)
         /\ ( /\ TimesSent(frames', CMD55) > 0
              /\ answers'.acmd41_at > 1000 \/ answers'.cmd55 > 1 )
            => /\ last'.ret = ERR_SD_INIT_FAILED
               /\ TimesSent(frames', CMD55) = 1000
               /\ CommandsSent(frames') \subseteq {CMD0, CMD8, CMD55, ACMD41} ]_vars

\* a mount has failed after 1000 unanswered ACMD41 attempts on a v1 card
C12_Witness ==
  /\ last.op = "mount"
  /\ last.ret = ERR_SD_INIT_FAILED
  /\ cardKind = CT_SD1
  /\ TimesSent(frames, ACMD41) = 1000

\* C13: every command frame sent carries the CRC byte 0x95 when it is
\* CMD0 with argument 0, 0x87 when it is CMD8 with argument 0x1AA, and
\* 0xFF otherwise.
C13_CrcLiterals ==
  \A f \in DOMAIN frames :
    f.crc = IF f.cmd = 0 /\ f.arg = 0 THEN 149
            ELSE IF f.cmd = 8 /\ f.arg = 426 THEN 135
            ELSE 255

\* one mount has sent CMD0, CMD8 and, with 0xFF, CMD55, ACMD41, CMD58,
\* CMD16 and CMD17
C13_Witness ==
  /\ last.op = "mount"
  /\ CommandsSent(frames) = {0, 8, 55, 41, 58, 16, 17}
  /\ \E f \in DOMAIN frames : f.crc = 149
  /\ \E f \in DOMAIN frames : f.crc = 135

\* C14: reduceFrequency sets the frequency to the largest of 4 MHz, 1 MHz
\* and 400 kHz strictly below the current one and returns true, or, when
\* none is below, returns false and leaves it; from 4 MHz the calls give
\* 1 MHz, then 400 kHz, then false.
C14_ReducePicksNextRung ==
  [][ last'.op = "reduce"
      => LET below == {r \in {4000000, 1000000, 400000} : r < current_spi_freq}
         IN /\ below # {} =>
                 /\ last'.ret = 1
                 /\ current_spi_freq' \in below
                 /\ \A r \in below : r <= current_spi_freq'
            /\ below = {} =>
                 /\ last'.ret = 0
                 /\ current_spi_freq' = current_spi_freq
            /\ current_spi_freq = 4000000 => current_spi_freq' = 1000000
            /\ current_spi_freq = 1000000 => current_spi_freq' = 400000
            /\ current_spi_freq = 400000 => last'.ret = 0 ]_vars

\* reduceFrequency has just refused at the lowest rung
C14_Witness ==
  /\ last.op = "reduce"
  /\ last.ret = 0
  /\ current_spi_freq = 400000

\* C19: sd_mount called with freq_hz == 0 mounts at, and leaves the current
\* frequency equal to, SD_SPI_FREQUENCY, whatever reduceFrequency or
\* mount(f) calls came before.
C19_MountZeroUsesDefault ==
  [][ (last'.op = "mount" /\ last'.arg = 0)
      => current_spi_freq' = SD_SPI_FREQUENCY ]_vars

\* C20: sd_reduce_frequency goes down the ladder 25 MHz, 10 MHz, 4 MHz,
\* 1 MHz, 400 kHz one rung per call and returns false only at 400 kHz.
C20_FiveRungLadder ==
  [][ last'.op = "reduce"
      => /\ current_spi_freq = 25000000 => current_spi_freq' = 10000000
         /\ current_spi_freq = 10000000 => current_spi_freq' = 4000000
         /\ current_spi_freq = 4000000 => current_spi_freq' = 1000000
         /\ current_spi_freq = 1000000 => current_spi_freq' = 400000
         /\ (last'.ret = 0) <=> (current_spi_freq = 400000) ]_vars

\* the sector ends with 0x55 0xAA
CarriesTrailer(sec) == At(sec, 510) = 85 /\ At(sec, 511) = 170

\* C15: in a mount whose read of sector 0 succeeds and finds no trailer,
\* with lba the little-endian value at offset 0x1C6 of sector 0: when the
\* sector lba is read and carries the trailer the volume is located with
\* the FAT starting at lba + reserved sectors and the mount goes on to the
\* file locator (it returns success or FILE_OPEN_FAILED);
\* when lba is 0 or the sector read lacks the trailer the mount returns
\* FAT_VOLUME_FAILED.
C15_PartitionFallback ==
  [][ ( /\ last'.op = "mount"
        /\ Len(bus') >= 1
        /\ bus'[1].ok
        /\ ~CarriesTrailer(card[0]) )
      => LET lba == LE32(card[0], 454)
         IN /\ bus'[1].sector = 0
            /\ lba # 0 =>
                 /\ Len(bus') >= 2
                 /\ bus'[2].op = "read"
                 /\ bus'[2].sector = lba
            /\ (lba # 0 /\ bus'[2].ok /\ CarriesTrailer(card[lba])) =>
                 /\ last'.ret \in {ERR_NONE, ERR_FILE_OPEN_FAILED}
                 /\ geom'.fat_start_sector = lba + LE16(card[lba], 14)
                 /\ geom'.data_start_sector =
                      geom'.fat_start_sector + At(card[lba], 16) * LE32(card[lba], 36)
            /\ (lba = 0 \/ (bus'[2].ok /\ ~CarriesTrailer(card[lba]))) =>
                 last'.ret = ERR_FAT_VOLUME_FAILED ]_vars

\* a mount has succeeded through the partition table
C15_Witness ==
  /\ last.op = "mount"
  /\ last.ret = ERR_NONE
  /\ ~CarriesTrailer(card[0])
  /\ LE32(card[0], 454) # 0
  /\ geom.fat_start_sector = LE32(card[0], 454) + geom.reserved_sectors

\* C16: sd_is_mounted() (the flag sd_mounted) is true exactly when the most
\* recent sd_mount returned ERR_NONE and neither sd_unmount nor
\* sd_controller_init was called since: it is false before the first call,
\* a mount leaves it equal to "the mount returned ERR_NONE" whatever it
\* was before, unmount and init leave it false, and no other operation
\* changes it.
C16_MountedIffLastMountSucceeded ==
  /\ (last.op = "boot" => ~sd_mounted)
  /\ [][ /\ last'.op = "mount" => (sd_mounted' <=> last'.ret = ERR_NONE)
         /\ last'.op \in {"unmount", "init"} => ~sd_mounted'
         /\ last'.op \in {"write", "health"} => sd_mounted' = sd_mounted ]_vars

\* a mount called in a mounted session has failed and the flag is down
C16_Witness ==
  /\ last.op = "mount"
  /\ last.remount
  /\ last.ret # ERR_NONE
  /\ ~sd_mounted

\* C17: sd_unmount returns ERR_NONE, leaves sd_mounted false and leaves
\* chip-select high, in whatever state it is called.
C17_UnmountAlwaysSucceeds ==
  [][ last'.op = "unmount" =>
        /\ last'.ret = ERR_NONE
        /\ ~sd_mounted'
        /\ cs_high' ]_vars

\* unmount has been called after the identification of a v1 card failed
\* in ACMD41, the path that returns with the card still selected
C17_Witness ==
  /\ last.op = "unmount"
  /\ answers = Unasked
  /\ cardKind = CT_SD1
  /\ card_type = CT_NONE
  /\ nEvents >= 1
  /\ cs_high
  /\ ~sd_mounted

\* C18 as stated: every sd_health_check reads sector 0 and returns
\* ERR_NONE if and only if that read succeeds.
C18_HealthAlwaysReads ==
  [][ last'.op = "health" =>
        /\ Len(bus') = 1
        /\ bus'[1].op = "read"
        /\ bus'[1].sector = 0
        /\ (last'.ret = ERR_NONE) <=> bus'[1].ok ]_vars

\* C18: in a mounted session sd_health_check reads sector 0, once, and
\* returns ERR_NONE if and only if that read succeeds (ERR_SD_INIT_FAILED
\* otherwise); in a session that is not mounted it returns
\* ERR_SD_MOUNT_FAILED and puts nothing on the bus.
C18_HealthReadsWhenMounted ==
  [][ last'.op = "health" =>
        IF sd_mounted
          THEN /\ Len(bus') = 1
               /\ bus'[1].op = "read"
               /\ bus'[1].sector = 0
               /\ (last'.ret = ERR_NONE) <=> bus'[1].ok
               /\ last'.ret \in {ERR_NONE, ERR_SD_INIT_FAILED}
          ELSE /\ bus' = << >>
               /\ frames' = << >>
               /\ last'.ret = ERR_SD_MOUNT_FAILED ]_vars

\* a health check of a mounted session has failed on its read of sector 0
C18_Witness ==
  /\ last.op = "health"
  /\ last.ret = ERR_SD_INIT_FAILED
  /\ sd_mounted
  /\ Len(bus) = 1
  /\ bus[1].sector = 0
  /\ ~bus[1].ok

\* the mount sent ACMD41 with the given argument
SentAcmd41(sent, arg) == Frame(ACMD41, arg) \in DOMAIN sent

\* C24 as stated: after CMD8, a response with the in-idle-state bit set
\* takes the v2 path (echo check, then ACMD41 with HCS), a response with
\* the illegal-command bit set takes the v1 path (ACMD41 with argument 0),
\* any other response makes the mount return SD_INIT_FAILED.
C24_IdleBitSelectsV2 ==
  [][ ( /\ last'.op = "mount"
        /\ TimesSent(frames', CMD8) = 1
        /\ BitSet(answers'.cmd8, R1_IDLE_STATE) )
      => /\ ~SentAcmd41(frames', 0)
         /\ \/ last'.ret = ERR_SD_CARD_TYPE_UNKNOWN
            \/ answers'.cmd55 > 1
            \/ SentAcmd41(frames', ACMD41_HCS) ]_vars

\* C24: after CMD8 with argument 0x1AA, a response equal to 0x01 takes
\* the v2 path: the mount returns SD_CARD_TYPE_UNKNOWN, with no further
\* command, unless the last two echo bytes are 0x01, 0xAA, and otherwise
\* goes on with ACMD41 carrying HCS; any other response with the
\* illegal-command bit set takes the v1 path (ACMD41 with argument 0,
\* sent when CMD55 is answered 0 or 1);
\* any other response makes the mount return SD_INIT_FAILED with no
\* further command.
C24_VersionProbe ==
  [][ ( /\ last'.op = "mount"
        /\ TimesSent(frames', CMD8) = 1 )
      => LET r == answers'.cmd8
             echoed == answers'.echo2 = 1 /\ answers'.echo3 = 170
         IN /\ Frame(CMD8, CMD8_ARG) \in DOMAIN frames'
            /\ r = R1_IDLE_STATE =>
                 /\ ~SentAcmd41(frames', 0)
                 /\ echoed => /\ last'.ret # ERR_SD_CARD_TYPE_UNKNOWN
                              /\ answers'.cmd55 <= 1 =>
                                   SentAcmd41(frames', ACMD41_HCS)
                 /\ ~echoed => /\ last'.ret = ERR_SD_CARD_TYPE_UNKNOWN
                               /\ CommandsSent(frames') = {CMD0, CMD8}
            /\ (r # R1_IDLE_STATE /\ BitSet(r, R1_ILLEGAL_CMD)) =>
                 /\ ~SentAcmd41(frames', ACMD41_HCS)
                 /\ last'.ret # ERR_SD_CARD_TYPE_UNKNOWN
                 /\ answers'.cmd55 <= 1 => SentAcmd41(frames', 0)
            /\ (r # R1_IDLE_STATE /\ ~BitSet(r, R1_ILLEGAL_CMD)) =>
                 /\ last'.ret = ERR_SD_INIT_FAILED
                 /\ CommandsSent(frames') = {CMD0, CMD8} ]_vars

\* a card that answered CMD8 with 0x05 (idle and illegal command) has been
\* mounted through the v1 path
C24_Witness ==
  /\ last.op = "mount"
  /\ last.ret = ERR_NONE
  /\ answers # Unasked
  /\ answers.cmd8 = 5
  /\ SentAcmd41(frames, 0)
  /\ card_type = CT_SD1

\* C25: after a successful mount on the v2 path (ACMD41 sent with HCS)
\* card_type is CT_SDHC when bit 0x40 of the first OCR byte the card sends
\* after CMD58 is set and CT_SD2 otherwise; after a successful mount on
\* the v1 path it is CT_SD1; a mounted session never has card_type
\* CT_NONE.
C25_CardTypeFromOcr ==
  /\ (sd_mounted => card_type # CT_NONE)
  /\ [][ (last'.op = "mount" /\ last'.ret = ERR_NONE)
         => /\ SentAcmd41(frames', ACMD41_HCS) =>
                 card_type' = (IF BitSet(answers'.ocr0, 64)
                                 THEN CT_SDHC ELSE CT_SD2)
            /\ SentAcmd41(frames', 0) => card_type' = CT_SD1 ]_vars

\* index of the first entry of dir whose first byte is 0x00, DIR_ENTRIES
\* when there is none
DirEnd(dir) ==
  LET ends == {i \in 0..(DIR_ENTRIES - 1) : At(dir, i * 32) = 0}
  IN IF ends = {} THEN DIR_ENTRIES
     ELSE CHOOSE i \in ends : \A k \in ends : i <= k

\* the entries of dir before its end that carry the name of the file
Matches(dir) ==
  {i \in 0..(DirEnd(dir) - 1) :
     \A j \in 0..10 : At(dir, i * 32 + j) = CSV_NAME_83[j + 1]}

FirstMatch(dir) ==
  LET m == Matches(dir) IN CHOOSE i \in m : \A k \in m : i <= k

\* the slots the scan can remember: deleted entries before the end, and
\* the end entry itself
ScanFree(dir) ==
  LET end == DirEnd(dir)
  IN {i \in 0..(DIR_ENTRIES - 1) : i <= end /\ At(dir, i * 32) \in {0, 229}}

\* the mount step ran the file locator and none of its block operations
\* failed
LocatorRan ==
  /\ last'.op = "mount"
  /\ last'.ret \in {ERR_NONE, ERR_FILE_OPEN_FAILED}
  /\ AllOk(bus')

\* C28: when the root-directory sector holds an entry named "SD_TEST CSV"
\* before any 0x00 entry, the mount returns success with the cursor at
\* (cluster_to_sector(start cluster) + size / 512, size % 512), the start
\* cluster and the size read from the first such entry (offsets 0x14,
\* 0x1A and 0x1C), header_written TRUE, and no sector written.
C28_FoundSetsCursor ==
  [][ (LocatorRan /\ Matches(card[RootSector(geom')]) # {})
      => LET dir == card[RootSector(geom')]
             e == EntryAt(dir, FirstMatch(dir))
             startCluster == At(e, 26) + 256 * At(e, 27)
                               + 65536 * (At(e, 20) + 256 * At(e, 21))
             size == At(e, 28) + 256 * At(e, 29) + 65536 * At(e, 30)
                       + 16777216 * At(e, 31)
         IN /\ last'.ret = ERR_NONE
            /\ csv_next_sector' =
                 cluster_to_sector(geom', startCluster) + size \div 512
            /\ csv_byte_offset' = size % 512
            /\ header_written'
            /\ Writes(bus') = << >>
            /\ card' = card ]_vars

\* a mount has found a file of 1100 bytes behind a deleted entry: the
\* cursor is two sectors into the file, at offset 76
C28_Witness ==
  /\ last.op = "mount"
  /\ last.ret = ERR_NONE
  /\ header_written
  /\ FirstMatch(card[RootSector(geom)]) = 1
  /\ csv_next_sector = cluster_to_sector(geom, 3) + 2
  /\ csv_byte_offset = 76

\* C29: the scan looks at entries 0..15 in order and stops at the first
\* entry whose byte 0 is 0x00, so that a name behind it is not seen; it
\* remembers the first entry that is 0xE5 or that 0x00.  When no entry
\* matches: with no slot remembered the mount returns FILE_OPEN_FAILED,
\* writes no sector and leaves sd_mounted FALSE; with a slot remembered the
\* file is created in that slot.
C29_ScanAndFullDirectory ==
  [][ (LocatorRan /\ Matches(card[RootSector(geom')]) = {})
      => LET root == RootSector(geom')
             dir == card[root]
             free == ScanFree(dir)
         IN IF free = {}
              THEN /\ last'.ret = ERR_FILE_OPEN_FAILED
                   /\ Writes(bus') = << >>
                   /\ card' = card
                   /\ ~sd_mounted'
              ELSE LET slot == CHOOSE i \in free : \A k \in free : i <= k
                   IN /\ last'.ret = ERR_NONE
                      /\ ~header_written'
                      /\ Writes(bus')[1].sector = root
                      /\ Writes(bus')[1].from = slot * 32
                      /\ SubSeq(EntryAt(card'[root], slot), 1, 11) = CSV_NAME_83
                      /\ \A i \in 0..(DIR_ENTRIES - 1) :
                           i # slot => EntryAt(card'[root], i) = EntryAt(dir, i) ]_vars

\* a mount has failed on a directory whose 16 entries are all in use
C29_Witness ==
  /\ last.op = "mount"
  /\ last.ret = ERR_FILE_OPEN_FAILED
  /\ AllOk(bus)
  /\ ~sd_mounted
  /\ DirEnd(card[RootSector(geom)]) = DIR_ENTRIES
  /\ ScanFree(card[RootSector(geom)]) = {}

\* the bytes at which two sectors differ
DiffAt(a, b) == {i \in 0..(SECTOR_SIZE - 1) : At(a, i) # At(b, i)}

\* C30: a mount that creates the file writes exactly two sectors, the
\* root-directory sector and then the sector at fat_start_sector; on the
\* card the first differs from what it was only inside the 32 bytes of
\* the slot, the second only in the 4 bytes at offset 12, which hold
\* FF FF FF 0F; no other sector of the card changes, the second copy of
\* the FAT included.
C30_CreationWritesTwoSectors ==
  [][ ( /\ last'.op = "mount"
        /\ last'.ret = ERR_NONE
        /\ ~header_written' )
      => LET root == RootSector(geom')
             fat == geom'.fat_start_sector
             w == Writes(bus')
             slot == w[1].from \div 32
         IN /\ Len(w) = 2
            /\ w[1].sector = root
            /\ w[2].sector = fat
            /\ \A n \in DOMAIN card : card'[n] # card[n] => n \in {root, fat}
            /\ card'[fat + geom'.sectors_per_fat] = card[fat + geom'.sectors_per_fat]
            /\ DiffAt(card'[root], card[root]) \subseteq (slot * 32)..(slot * 32 + 31)
            /\ DiffAt(card'[fat], card[fat]) \subseteq 12..15
            /\ <<At(card'[fat], 12), At(card'[fat], 13),
                  At(card'[fat], 14), At(card'[fat], 15)>> = <<255, 255, 255, 15>> ]_vars

\* a mount has created the file in the slot of a deleted entry, behind a
\* partition table
C30_Witness ==
  /\ last.op = "mount"
  /\ last.ret = ERR_NONE
  /\ ~header_written
  /\ Len(Writes(bus)) = 2
  /\ Writes(bus)[1].from = 32
  /\ geom.fat_start_sector = 2
  /\ At(card[geom.fat_start_sector], 15) = 15

\* the frames of the sequence seq in order, a block sent more than once
\* standing twice
RECURSIVE Unrolled(_)
Unrolled(seq) ==
  IF seq = << >> THEN << >>
  ELSE (IF Head(seq).n > 1 THEN Head(seq).cmds \o Head(seq).cmds
        ELSE Head(seq).cmds) \o Unrolled(Tail(seq))

\* what one frame returns when the card behaves as `line`
Returned(line) ==
  IF line.ready_at > READY_RETRIES + 1 THEN 255
  ELSE IF line.resp_at <= RESPONSE_POLLS THEN line.r
  ELSE line.filler

\* C26: every ACMD41 frame of a call of sd_send_cmd comes right after a
\* CMD55 frame of that call; when CMD55 returns more than 1 no ACMD41
\* frame is sent and the call returns what CMD55 returned; when CMD55
\* returns 0 or 1 the ACMD41 frame follows (if the line is released) and
\* the call returns what that frame returned.
C26_Acmd41AfterCmd55 ==
  [][ last'.op = "cmd"
      => LET o == Unrolled(wire'.seq)
             r55 == Returned(answers'.line55)
             is_acmd == BitSet(last'.arg, ACMD_FLAG)
         IN /\ \A i \in 1..Len(o) :
                 o[i] = ACMD41 => i > 1 /\ o[i - 1] = CMD55
            /\ is_acmd /\ r55 > 1
                 => /\ ~SentAcmd41(frames', last'.line[1])
                    /\ o \in {<< >>, << CMD55 >>}
                    /\ last'.ret = r55
            /\ is_acmd /\ r55 <= 1
                 => /\ last'.ret = Returned(answers'.line)
                    /\ o = IF answers'.line.ready_at > READY_RETRIES + 1
                             THEN << CMD55 >> ELSE << CMD55, ACMD41 >> ]_vars

\* sd_send_cmd(ACMD41) has returned the 0x05 that CMD55 was answered with,
\* and no ACMD41 frame was sent
C26_Witness ==
  /\ last.op = "cmd"
  /\ last.arg = ACMD_FLAG + ACMD41
  /\ answers.line55 = Prompt(R1_ILLEGAL_CMD)
  /\ answers.line.r = 0
  /\ last.ret = R1_ILLEGAL_CMD
  /\ wire.seq = << [cmds |-> << CMD55 >>, n |-> 1] >>

\* C27 as stated: a frame polls at most 200 bytes for the line and at most
\* 10 for the response, returns 0xFF when either wait runs out, and sends
\* no command byte when the line is never released
C27_FrameCeilings200 ==
  [][ last'.op = "cmd" /\ ~BitSet(last'.arg, ACMD_FLAG)
      => LET l == answers'.line
         IN /\ wire'.ready <= 200
            /\ wire'.resp <= 10
            /\ l.ready_at > wire'.ready => last'.ret = 255 /\ frames' = << >>
            /\ l.resp_at > wire'.resp => last'.ret = 255 ]_vars

\* C27: a frame polls at most 201 bytes for the line (it is sent when the
\* 201st reads 0xFF) and at most 10 for the response; when the line is not
\* released within 201 bytes it returns 0xFF having sent no command byte;
\* when no byte with the high bit clear comes within 10 it returns the
\* 10th byte polled, which is 0xFF only if the card sent 0xFF.
C27_FrameCeilings ==
  [][ last'.op = "cmd"
      => /\ wire'.ready <= 201
         /\ wire'.resp <= 10
         /\ ~BitSet(last'.arg, ACMD_FLAG)
              => LET l == answers'.line
                 IN IF l.ready_at > 201
                      THEN /\ wire'.ready = 201
                           /\ last'.ret = 255
                           /\ frames' = << >>
                           /\ wire'.xfer = 1 + 201
                    ELSE /\ wire'.ready = l.ready_at
                         /\ frames' = Sent(<< >>, Frame(last'.arg, last'.line[1]), 1)
                         /\ wire'.resp = (IF l.resp_at > 10 THEN 10 ELSE l.resp_at)
                         /\ wire'.xfer = 1 + wire'.ready + 6 + wire'.resp
                         /\ last'.ret = (IF l.resp_at > 10 THEN l.filler ELSE l.r) ]_vars

\* a frame was sent after the 201st byte polled read 0xFF, and returned
\* the 0x80 that the card sent as 10th byte after it
C27_Witness ==
  /\ last.op = "cmd"
  /\ last.arg = CMD17
  /\ answers.line.ready_at = 201
  /\ wire.ready = 201
  /\ wire.resp = 10
  /\ last.ret = 128
  /\ frames # << >>

\* the tags of the transfers of the identification: the SPI warmup and the
\* frames of CMD0, CMD8, CMD55, ACMD41, CMD58 and CMD16 with what follows
\* each (echo, OCR, deselect)
IdentificationTags == {WARMUP, CMD0, CMD8, CMD55, ACMD41, CMD58, CMD16}

\* the tags of the transfers of block operations
BlockTags == {CMD17, CMD24}

\* C22: in every sd_mount(f), every transfer from the SPI warmup to the
\* end of the identification is made at 400 kHz, and every transfer of a
\* sector read or write of the volume phase at the operating frequency: f,
\* or the frequency the call found when f = 0.
C22_MountFrequencies ==
  [][ last'.op = "mount"
      => LET operating == IF last'.arg > 0 THEN last'.arg
                          ELSE current_spi_freq
         IN /\ << WARMUP, SD_SPI_INIT_FREQ >> \in wire'.at
            /\ \A p \in wire'.at :
                 /\ p[1] \in IdentificationTags => p[2] = SD_SPI_INIT_FREQ
                 /\ p[1] \in BlockTags => p[2] = operating
                 /\ p[1] \in IdentificationTags \cup BlockTags
                            \cup {NO_COMMAND} ]_vars

\* sd_mount(25 MHz) has succeeded on a card that is not SDHC: CMD16 went
\* out at 400 kHz, the sector reads at 25 MHz
C22_Witness ==
  /\ last.op = "mount"
  /\ last.arg = HIGH_FREQ
  /\ last.ret = ERR_NONE
  /\ << CMD16, SD_SPI_INIT_FREQ >> \in wire.at
  /\ << CMD17, HIGH_FREQ >> \in wire.at
  /\ current_spi_freq = HIGH_FREQ

\* the place of a command in the order of sd_mount: CMD0, CMD8, the
\* ACMD41 attempts (CMD55 and ACMD41), CMD58, CMD16, the block operations
Rank(cmd) ==
  CASE cmd = CMD0 -> 0
    [] cmd = CMD8 -> 1
    [] cmd \in {CMD55, ACMD41} -> 2
    [] cmd = CMD58 -> 3
    [] cmd = CMD16 -> 4
    [] OTHER -> 5

\* the frames o start with CMD0 and never go back in the order of sd_mount
InMountOrder(o) ==
  /\ o # << >> => o[1] = CMD0
  /\ \A i \in 1..(Len(o) - 1) : Rank(o[i]) <= Rank(o[i + 1])

\* how often the command was sent, a retry loop counting once
TimesIn(seq, cmd) ==
  Cardinality({i \in 1..Len(seq) : \E j \in 1..Len(seq[i].cmds) :
                                     seq[i].cmds[j] = cmd})

\* every command of the identification that was sent got the response
\* that lets sd_mount go on, the card having answered as a
AllSucceeded(a, o) ==
  /\ a.ready_at <= READY_RETRIES + 1
  /\ a.cmd0_at <= CMD0_ATTEMPTS
  /\ \/ a.cmd8 = R1_IDLE_STATE /\ a.echo2 = 1 /\ a.echo3 = 170
     \/ a.cmd8 # R1_IDLE_STATE /\ BitSet(a.cmd8, R1_ILLEGAL_CMD)
  /\ a.cmd55 <= 1
  /\ a.acmd41_at <= ACMD41_ATTEMPTS
  /\ (\E i \in 1..Len(o) : o[i] = CMD58) => a.cmd58 = 0
  /\ (\E i \in 1..Len(o) : o[i] = CMD16) => a.cmd16 = 0

\* a sector read or write is among the frames o
BlockIo(o) == \E i \in 1..Len(o) : o[i] \in BlockTags

\* C23: in every sd_mount the frames go out in the order CMD0 (once or
\* more), CMD8, the ACMD41 attempts, CMD58 on the v2 path, CMD16; CMD17 or
\* CMD24 is sent only after every one of these that was sent has
\* succeeded; a mount that fails in the identification sends no CMD17 or
\* CMD24, and one whose volume locator fails does not get to the file
\* locator (at most its two reads, no write).
C23_MountOrder ==
  [][ last'.op = "mount"
      => LET o == Unrolled(wire'.seq)
         IN /\ InMountOrder(o)
            /\ TimesIn(wire'.seq, CMD8) <= 1
            /\ TimesIn(wire'.seq, CMD58) <= 1
            /\ TimesIn(wire'.seq, CMD16) <= 1
            /\ BlockIo(o) => AllSucceeded(answers', o)
            /\ last'.ret \in {ERR_SD_INIT_FAILED, ERR_SD_CARD_TYPE_UNKNOWN}
                 => ~BlockIo(o)
            /\ last'.ret = ERR_FAT_VOLUME_FAILED
                 => Len(bus') <= 2 /\ Writes(bus') = << >> ]_vars

\* most transfers of one frame: spi_deselect, the wait for the line, the
\* six bytes of the command, the wait for the response
FRAME_CEILING == 1 + (READY_RETRIES + 1) + 6 + RESPONSE_POLLS

\* most transfers of sd_read_sector: the frame, the wait for the token,
\* the block and its CRC, spi_deselect
READ_CEILING == FRAME_CEILING + (TOKEN_RETRIES + 1) + SECTOR_SIZE + 2 + 1

\* most transfers of sd_write_sector: the frame, the token, the block, its
\* CRC, the data response, the wait for the end of the write, spi_deselect
WRITE_CEILING ==
  FRAME_CEILING + 2 + SECTOR_SIZE + 2 + 1 + (BUSY_RETRIES + 1) + 1

\* most transfers of one public call: for sd_mount the unmount, the
\* warmup, the frames of CMD0, CMD8, CMD58 and CMD16, two frames for each
\* ACMD41 attempt, echo and OCR, a deselect on each path, and the block
\* operations
CallCeiling(op) ==
  CASE op = "mount" ->
         1 + 11 + (CMD0_ATTEMPTS + 3) * FRAME_CEILING
           + ACMD41_ATTEMPTS * 2 * FRAME_CEILING + 4 + 4 + 4
           + MAX_BLOCK_OPS * WRITE_CEILING
    [] op = "write" -> READ_CEILING + 2 * WRITE_CEILING
    [] op = "health" -> READ_CEILING
    [] OTHER -> 1

\* the number of frames sent
FramesSent(sent) ==
  LET RECURSIVE Sum(_)
      Sum(fs) == IF fs = {} THEN 0
                 ELSE LET f == CHOOSE g \in fs : TRUE
                      IN sent[f] + Sum(fs \ {f})
  IN Sum(DOMAIN sent)

\* C21: every call of sd_mount, sd_unmount, sd_write_csv_line and
\* sd_health_check returns after a bounded number of bus transfers,
\* whatever the card does: no wait for the line polls more than 201 bytes,
\* none for a response more than 10, none for a data token more than
\* 10001, none for the end of a write more than 50001; a call sends at
\* most 100 CMD0 and 1000 ACMD41 attempts and issues at most 6 block
\* operations (3 in sd_write_csv_line, 1 in sd_health_check), so that its
\* transfers stay below the ceiling of its operation.
C21_BoundedWaits ==
  [][ last'.op \in {"mount", "unmount", "write", "health"}
      => /\ wire'.ready <= READY_RETRIES + 1
         /\ wire'.resp <= RESPONSE_POLLS
         /\ wire'.token <= TOKEN_RETRIES + 1
         /\ wire'.busy <= BUSY_RETRIES + 1
         /\ FramesSent(frames') <= CMD0_ATTEMPTS + 3 + 2 * ACMD41_ATTEMPTS
                                     + MAX_BLOCK_OPS
         /\ Len(bus') <= (CASE last'.op = "mount" -> MAX_BLOCK_OPS
                            [] last'.op = "write" -> 3
                            [] last'.op = "health" -> 1
                            [] OTHER -> 0)
         /\ last'.op = "unmount" => wire'.xfer = 1
         /\ wire'.xfer <= CallCeiling(last'.op) ]_vars

\* sd_write_csv_line has returned ERR_FILE_WRITE_FAILED from a card that
\* stayed busy: the wait for the end of the write polled 50001 bytes
C21_Witness ==
  /\ last.op = "write"
  /\ last.ret = ERR_FILE_WRITE_FAILED
  /\ wire.busy = BUSY_RETRIES + 1
  /\ wire.xfer > BUSY_RETRIES

\* ------------------------------------------------------------------------
\* C31..C40
\* ------------------------------------------------------------------------

\* C31: a call of sd_mount that returns an error has written no sector: the
\* contents of the card are the same before and after the call.
C31_FailedMountWritesNothing ==
  [][ (last'.op = "mount" /\ last'.ret # ERR_NONE) => card' = card ]_vars

\* C32: a call of sd_write_csv_line that returns ERR_FILE_WRITE_FAILED
\* leaves the cursor (csv_next_sector, csv_byte_offset) as it was before
\* the call.
C32_FailedWriteKeepsCursor ==
  [][ (last'.op = "write" /\ last'.ret = ERR_FILE_WRITE_FAILED)
      => ( /\ csv_next_sector' = csv_next_sector
           /\ csv_byte_offset' = csv_byte_offset ) ]_vars

\* C33: a call of sd_write_csv_line that returns an error leaves
\* header_written as it was; header_written becomes TRUE only in a call
\* that returns success and whose text starts with the header.
C33_HeaderFlagOnlyOnSuccess ==
  [][ last'.op = "write"
      => /\ last'.ret # ERR_NONE => header_written' = header_written
         /\ (~header_written /\ header_written')
              => /\ last'.ret = ERR_NONE
                 /\ SubSeq(last'.line, 1, Len(CSV_HEADER)) = CSV_HEADER ]_vars

\* C34: when sd_mount, sd_unmount, sd_write_csv_line or sd_health_check
\* has returned, on any path, the chip-select line is high.
C34_ChipSelectReleased ==
  last.op \in {"mount", "unmount", "write", "health"} => cs_high

\* C35: sd_write_csv_line writes only sectors of the data area: on every
\* card on which sd_mount succeeded, whatever start cluster and size the
\* directory entry holds, every sector written by the call is at or after
\* data_start_sector and is not the sector of the root directory.
C35_WritesOnlyDataArea ==
  [][ last'.op = "write"
      => \A k \in 1..Len(bus') :
           bus'[k].op = "write"
             => /\ bus'[k].sector >= geom.data_start_sector
                /\ bus'[k].sector # RootSector(geom) ]_vars

\* C36: in a mounted session a successful call of sd_write_csv_line with a
\* text of L bytes advances csv_next_sector * 512 + csv_byte_offset by
\* exactly L and stores the L bytes at the L consecutive positions that
\* start at the position before the call; it starts where the successful
\* call before it in the session ended, without gap or overlap.
C36_AdvancesByLength ==
  [][ (last'.op = "write" /\ last'.ret = ERR_NONE)
      => LET before == Pos(csv_next_sector, csv_byte_offset)
             L == Len(last'.line)
         IN /\ Pos(csv_next_sector', csv_byte_offset') = before + L
            /\ \A i \in 1..L :
                 At(card'[Target((before + i - 1) \div SECTOR_SIZE)],
                    (before + i - 1) % SECTOR_SIZE) = last'.line[i]
            /\ session_wrote => before = written_end ]_vars

\* C37: while sd_mounted is FALSE, sd_write_csv_line and sd_health_check
\* return ERR_SD_MOUNT_FAILED without any transfer on the bus and leave
\* the cursor, header_written, the sector buffer and last_write_time_us as
\* they were.
C37_UnmountedCallsTouchNothing ==
  [][ (~sd_mounted /\ last'.op \in {"write", "health"})
      => /\ last'.ret = ERR_SD_MOUNT_FAILED
         /\ wire'.xfer = 0
         /\ bus' = << >>
         /\ frames' = << >>
         /\ cs_high' = cs_high
         /\ card' = card
         /\ UNCHANGED << csv_next_sector, csv_byte_offset, header_written,
                         sector_buffer, last_write_time_us >> ]_vars

\* sd_health_check was refused after the sd_unmount of a session that had
\* written: the cursor, the buffer and the write time of the session are
\* still there
C37_Witness ==
  /\ last.op = "health"
  /\ last.ret = ERR_SD_MOUNT_FAILED
  /\ ~sd_mounted
  /\ session_wrote
  /\ header_written
  /\ csv_byte_offset > 0
  /\ sector_buffer # ZeroSector
  /\ last_write_time_us = ELAPSED_US
  /\ wire.xfer = 0

\* the error codes with which sd_mount leaves the identification sequence
IdentificationErrors == {ERR_SD_INIT_FAILED, ERR_SD_CARD_TYPE_UNKNOWN}

\* C38: sd_get_card_info called after an sd_mount that failed in the
\* identification sequence returns an error; it returns a type and a size
\* only when the identification of that mount, the most recent one,
\* succeeded.
C38_InfoOnlyAfterIdentification ==
  [][ (last.op = "mount" /\ last'.op = "info")
      => /\ last.ret \in IdentificationErrors => last'.ret # ERR_NONE
         /\ last'.line # << >> => last.ret \notin IdentificationErrors ]_vars

\* the calls of the operation op among the calls of a cycle, in order
CallsOf(calls, op) == SelectSeq(calls, LAMBDA e : e.op = op)

\* every call of the sequence but the last returned an error
OnlyLastMaySucceed(attempts) ==
  \A i \in 1..(Len(attempts) - 1) : attempts[i].ret # ERR_NONE

\* every call of the sequence returned an error
AllFailed(attempts) ==
  \A i \in 1..Len(attempts) : attempts[i].ret # ERR_NONE

\* the frequency of the attempt that follows a failed attempt made at f
NextLower(f) ==
  IF f > 4000000 THEN 4000000
  ELSE IF f > 1000000 THEN 1000000
  ELSE 400000

\* the step in which a cycle ends: run_aggressive_cycle returns to loop()
\* and the statistics are updated
CycleEnds ==
  /\ app.pc \in {"mount_failed", "unmount"}
  /\ app'.pc \in {"loop", "rebooting"}

\* C39: in one aggressive cycle sd_mount is attempted at least once and at
\* most 3 times, and no more after its first success; between a failed
\* attempt and the next one sd_reduce_frequency is called, so that each
\* retry runs at the next lower frequency of the ladder (at 400 kHz again
\* when that was reached); sd_write_csv_line is attempted, at most 3 times
\* and not after its first success, only after a successful sd_mount; the
\* cycle reports a failure exactly when the 3 attempts of the mount phase
\* or the 3 attempts of the write phase failed, with the error code of
\* the last attempt.
C39_CycleRetries ==
  [][ CycleEnds
      => LET calls == app'.calls
             result == app'.result
             mounts == CallsOf(calls, "mount")
             writes == CallsOf(calls, "write")
             mount_failed == Len(mounts) = 3 /\ AllFailed(mounts)
             write_failed == Len(writes) = 3 /\ AllFailed(writes)
         IN /\ Len(mounts) \in 1..3
            /\ OnlyLastMaySucceed(mounts)
            /\ Len(mounts) < 3 => mounts[Len(mounts)].ret = ERR_NONE
            /\ \A i \in 1..Len(calls) :
                 /\ (calls[i].op = "mount" /\ calls[i].ret # ERR_NONE
                     /\ \E j \in (i + 1)..Len(calls) : calls[j].op = "mount")
                      => calls[i + 1].op = "reduce"
                 /\ calls[i].op = "write"
                      => \E j \in 1..(i - 1) :
                           calls[j].op = "mount" /\ calls[j].ret = ERR_NONE
            /\ \A k \in 1..(Len(mounts) - 1) :
                 mounts[k + 1].freq = NextLower(mounts[k].freq)
            /\ Len(writes) <= 3
            /\ OnlyLastMaySucceed(writes)
            /\ mounts[Len(mounts)].ret = ERR_NONE
                 => /\ Len(writes) >= 1
                    /\ Len(writes) < 3 => writes[Len(writes)].ret = ERR_NONE
            /\ ~result.success <=> (mount_failed \/ write_failed)
            /\ mount_failed => result.error_code = mounts[3].ret
            /\ write_failed => result.error_code = writes[3].ret
            /\ result.success => result.error_code = ERR_NONE ]_vars

\* a cycle has succeeded at its third mount, made at 400 kHz after failed
\* attempts at 4 MHz and 1 MHz, and at its third write
C39_Witness ==
  /\ app.pc = "loop"
  /\ app.result.success
  /\ Len(CallsOf(app.calls, "mount")) = 3
  /\ Len(CallsOf(app.calls, "reduce")) = 2
  /\ Len(CallsOf(app.calls, "write")) = 3
  /\ app.calls[1].freq = 4000000
  /\ current_spi_freq = 400000
  /\ ~sd_mounted

\* C40: a cycle that succeeds leaves consecutive_failures at 0 and a cycle
\* that fails leaves it one higher; when it reaches 10 at the end of a
\* loop iteration the system reboots (the processor starts again with the
\* counter at 0): from there the application does nothing but the reset,
\* so that a cycle never starts with the counter at 10 or more.
C40_FailureCounter ==
  [][ /\ CycleEnds
        => LET before == app.stats.consecutive_failures
               counted == IF app'.result.success THEN 0 ELSE before + 1
           IN /\ before < 10
              /\ app'.stats.consecutive_failures = counted
              /\ app'.pc = IF counted >= 10 THEN "rebooting" ELSE "loop"
      /\ app.pc = "rebooting"
        => \/ app' = button_press_handler(app)
           \/ /\ app'.pc = "setup"
              /\ app'.stats.consecutive_failures = 0
              /\ ~sd_initialized'
      /\ app'.pc \in {"loop", "stopped", "mount", "mount_failed", "write",
                      "unmount"}
        => app'.stats.consecutive_failures < 10 ]_vars

\* the tenth failed cycle in a row has rebooted the system
C40_Witness ==
  /\ last.op = "reboot"
  /\ last.arg = 10
  /\ app.pc = "setup"
  /\ app.stats.consecutive_failures = 0
  /\ ~sd_initialized

====
